---- MODULE Spec2Model ----
(***************************************************************************)
(* The lexer of parser/better_lexer.go: a scanner over the input bytes, a  *)
(* state-function lexical analyzer run by the goroutine `run`, the         *)
(* unbuffered channel `tokens`, and the consumer side `Lex` / `Error`      *)
(* called by the generated parser.                                         *)
(*                                                                         *)
(* A Go string is a byte sequence: an input is a sequence of byte values.  *)
(* Go offsets are 0-based, so input[a:b] is SubSeq(input, a+1, b).         *)
(***************************************************************************)
EXTENDS Integers, Sequences, FiniteSets, TLC

VARIABLES
    lexer,     \* lexer[i]: the BetterRubyLexer struct of parse i
    chans,     \* chans[c]: the channel made by make(chan token)
    producer,  \* producer[i]: where the goroutine `run` of parse i stands
    consumer,  \* consumer[i]: where the parser of parse i stands
    emitted,   \* history: the tokens parse i's analyzer handed to emit
    received,  \* history: the tokens parse i's Lex took off the channel
    returned,  \* history: the values parse i's Lex calls returned
    crashed,   \* an unrecovered panic has ended the program
    call       \* history: the last scanner method called on the cursor by itself

vars ==
    <<lexer, chans, producer, consumer, emitted, received, returned, crashed, call>>

----------------------------------------------------------------------------
\* Bounds of the model.

\* longest input of the one-parse specification
MaxLen == 3
\* longest input of the two-parse specification
MaxLenPair == 2
\* Lex calls the parser still makes after the end of the token stream
MaxExtraLex == 1

\* Bytes the inputs are drawn from: NUL, newline, space, # & ' ( ) 5 : = a
Alphabet == {0, 10, 32, 35, 38, 39, 40, 41, 53, 58, 61, 97}
\* Bytes whose handling lies wholly in better_lexer.go: NUL & ( ) =
AlphabetCore == {0, 38, 40, 41, 61}
\* Bytes of the inputs of the two-parse specification: NUL & (
AlphabetPair == {0, 38, 40}
\* Inputs every input is paired with: 'a'  a:a  "5 #\n"  (&  (NUL
PairSamples ==
    {<<39, 97, 39>>, <<97, 58, 97>>, <<53, 32, 35, 10>>, <<40, 38>>, <<40, 0>>}

\* Bytes of the inputs that are numbers: 0 1 7 and the point
AlphabetNum == {46, 48, 49, 55}
\* Longer numbers: 01777, 123.4567, and 9223372036854775808 (1<<63)
NumSamples ==
    {<<48, 49, 55, 55, 55>>, <<49, 50, 51, 46, 52, 53, 54, 55>>,
     <<57, 50, 50, 51, 51, 55, 50, 48, 51, 54, 56, 53, 52, 55, 55, 53, 56, 48, 56>>}

\* Bytes of the inputs the scanner is run on by itself: NUL, 5, a, and the
\* two bytes of e-acute (U+00E9), which apart are not valid UTF-8
AlphabetScan == {0, 53, 97, 195, 169}
\* The rune classes handed to accept and acceptRun: a; 5 and a; e-acute
ValidSets == {{97}, {53, 97}, {233}}

\* Inputs with a structure:  class a   class A   5 class a   5)   (5
StructSamples ==
    {<<99, 108, 97, 115, 115, 32, 97>>, <<99, 108, 97, 115, 115, 32, 65>>,
     <<53, 32, 99, 108, 97, 115, 115, 32, 97>>, <<53, 41>>, <<40, 53>>}

\* longest text after the opening line of a heredoc
MaxLenBody == 4
\* Bytes of that text: newline, space, A, x
AlphabetHeredoc == {10, 32, 65, 120}

\* longest text after the opening quote of a string
MaxLenQuoted == 4
\* Bytes after an opening double quote:  " # a { }
AlphabetDouble == {34, 35, 97, 123, 125}
\* Bytes after an opening single quote:  ' \ a
AlphabetSingle == {39, 92, 97}
\* Longer strings:  "a#{"#{a}"}a"   "#{{"}"}}"   "a\"a"
DoubleSamples ==
    {<<34, 97, 35, 123, 34, 35, 123, 97, 125, 34, 125, 97, 34>>,
     <<34, 35, 123, 123, 34, 125, 34, 125, 125, 34>>,
     <<34, 97, 92, 34, 97, 34>>}
\* Longer strings:  'a\'a' a   'a\\'a'
SingleSamples ==
    {<<39, 97, 92, 39, 97, 39, 32, 97>>, <<39, 97, 92, 92, 39, 97, 39>>}

\* longest input of single-character tokens
MaxLenOps == 2
\* The characters lexAnything emits a token for by itself:
\*   ( ) , < > = ! ~ + - * [ ] { } $ @
AlphabetOps == {40, 41, 44, 60, 62, 61, 33, 126, 43, 45, 42, 91, 93, 123, 125, 36, 64}

\* longest input of the runs to the end
MaxLenEnd == 3
\* Bytes of the inputs of the runs to the end: ( ) +
AlphabetEnd == {40, 41, 43}

\* longest input of the scanner under backup's rule as written
MaxLenCalls == 3
\* Bytes of those inputs: colon, a, and the two bytes of e-acute
AlphabetCalls == {58, 97, 195, 169}

\* longest path handed to File.dirname
MaxLenPath == 4
\* Bytes of the paths: slash, a, b
AlphabetPath == {47, 97, 98}

\* longest input of lines
MaxLenLines == 3
\* Bytes of the inputs of lines: newline, space, # ( ) 5 and backslash
AlphabetLines == {10, 32, 35, 40, 41, 53, 92}
\* Longer inputs of lines, \n standing for a newline:
\*   (5\n)\n5\n    5 \\n#5\n5\n    5 \\n \\n5\n5
LineSamples ==
    {<<40, 53, 10, 41, 10, 53, 10>>,
     <<53, 32, 92, 10, 35, 53, 10, 53, 10>>,
     <<53, 32, 92, 10, 32, 92, 10, 53, 10, 53>>}

Strings(A, n) == UNION {[1..k -> A] : k \in 0..n}

Slice(s, a, b) == SubSeq(s, a + 1, b)

IsPrefix(s, t) == Len(s) <= Len(t) /\ SubSeq(t, 1, Len(s)) = s

----------------------------------------------------------------------------
\* Scanner.

eof == 0

RuneError == 65533

\* utf8.DecodeRuneInString for the one- and two-byte encodings; every byte
\* the inputs hold is below 0xE0, so the longer encodings never start.
DecodeRuneInString(s) ==
    IF s = <<>> THEN [r |-> RuneError, size |-> 0]
    ELSE IF s[1] < 128 THEN [r |-> s[1], size |-> 1]
    ELSE IF /\ s[1] >= 194 /\ s[1] <= 223
            /\ Len(s) >= 2 /\ s[2] >= 128 /\ s[2] <= 191
         THEN [r |-> (s[1] - 192) * 64 + (s[2] - 128), size |-> 2]
    ELSE [r |-> RuneError, size |-> 1]

\* next leaving the width of the rune before at the end of the input.
nextStaleWidth(l) ==
    IF l.pos >= Len(l.input)
    THEN [l |-> l, r |-> eof]
    ELSE LET d == DecodeRuneInString(Slice(l.input, l.pos, Len(l.input)))
         IN  [l |-> [l EXCEPT !.width = d.size, !.pos = @ + d.size], r |-> d.r]

next(l) ==
    IF l.pos >= Len(l.input)
    THEN [l |-> [l EXCEPT !.width = 0], r |-> eof]
    ELSE LET d == DecodeRuneInString(Slice(l.input, l.pos, Len(l.input)))
         IN  [l |-> [l EXCEPT !.width = d.size, !.pos = @ + d.size], r |-> d.r]

backup(l) == [l EXCEPT !.pos = @ - l.width]

ignore(l) == [l EXCEPT !.start = l.pos]

\* peek without its backup.
peekConsumes(l) == next(l)

peek(l) == LET n == next(l) IN [l |-> backup(n.l), r |-> n.r]

accept(l, valid) ==
    LET n == next(l)
    IN  IF n.r \in valid THEN [l |-> n.l, ok |-> TRUE]
        ELSE [l |-> backup(n.l), ok |-> FALSE]

\* acceptRun stopping after the first rune.
acceptRunOnce(l, valid) == accept(l, valid).l

RECURSIVE acceptRun(_, _)
acceptRun(l, valid) ==
    LET n == next(l)
    IN  IF n.r \in valid THEN acceptRun(n.l, valid) ELSE backup(n.l)

----------------------------------------------------------------------------
\* Lexical analyzer: each state function is run up to its first emit or to
\* its return.  The result names the cursor it leaves, the token kind it
\* emits ("" for none) and the place the goroutine continues at.

goto(l, s) == [l |-> l, emit |-> "", next |-> s]

emitThen(l, t, s) == [l |-> l, emit |-> t, next |-> s]

IsDigit(r) == r >= 48 /\ r <= 57

IsLetter(r) == (r >= 97 /\ r <= 122) \/ r = 95 \/ (r >= 65 /\ r <= 90)

\* lexAnything from its `next` call to the end of the switch.  A case that
\* emits inside the loop continues at the end-of-input test of line 171; a
\* case that returns lexAnything starts the function again.
lexAnything(l) ==
    LET n == next(l)
        r == n.r
        m == n.l
    IN  CASE IsDigit(r) -> goto(backup(m), "lexNumber")
          [] r = 39  -> goto(m, "lexSingleQuoteString")
          [] r = 58  -> goto([m EXCEPT !.start = @ + 1], "lexSymbol")
          [] r = 32 \/ r = 9 -> goto(backup(m), "lexWhitespace")
          [] r = 10  -> goto(backup(m), "lexNewlines")
          [] IsLetter(r) -> goto(backup(m), "lexReference")
          [] r = 40  -> emitThen(m, "tokenTypeLParen", "peekEOF")
          [] r = 41  -> emitThen(m, "tokenTypeRParen", "peekEOF")
          [] r = 44  -> emitThen(m, "tokenTypeComma", "peekEOF")
          [] r = 35  -> goto(m, "lexComment")
          [] r = 60  -> emitThen(m, "tokenTypeLessThan", "lexAnything")
          [] r = 62  -> emitThen(m, "tokenTypeGreaterThan", "lexAnything")
          [] r = 61  -> emitThen(m, "tokenTypeEqual", "lexAnything")
          [] r = 33  -> emitThen(m, "tokenTypeBang", "lexAnything")
          [] r = 126 -> emitThen(m, "tokenTypeTilde", "lexAnything")
          [] r = 43  -> emitThen(m, "tokenTypePlus", "lexAnything")
          [] r = 45  -> emitThen(m, "tokenTypeMinus", "lexAnything")
          [] r = 42  -> emitThen(m, "tokenTypeStar", "lexAnything")
          [] r = 91  -> emitThen(m, "tokenTypeLBracket", "lexAnything")
          [] r = 93  -> emitThen(m, "tokenTypeRBracket", "lexAnything")
          [] r = 123 -> emitThen(m, "tokenTypeLBrace", "lexAnything")
          [] r = 125 -> emitThen(m, "tokenTypeRBrace", "lexAnything")
          [] r = 36  -> emitThen(m, "tokenTypeDollarSign", "lexAnything")
          [] r = 64  -> emitThen(m, "tokenTypeAtSign", "lexAnything")
          [] r = eof -> goto(m, "peekEOF")
          [] OTHER   -> goto(m, "panic")

\* lines 171-173: leave the loop when the next rune is the sentinel.
\* A test of the end of the input that never comes to a result.
lexAnythingPeekSpins(l) == goto(l, "peekEOF")

lexAnythingPeekEnds(l) == goto(peek(l).l, "atEnd")

lexAnythingPeek(l) ==
    LET p == peek(l)
    IN  IF p.r = eof THEN goto(p.l, "atEnd") ELSE goto(p.l, "lexAnything")

\* lexAnythingEnd with an error token whatever the read mark.
lexAnythingEndAlwaysError(l) == emitThen(l, "tokenTypeError", "emitEOF")

\* lexAnythingEnd without the end marker on the path without an error.
lexAnythingEndNoMarker(l) ==
    IF l.start # Len(l.input)
    THEN emitThen(l, "tokenTypeError", "emitEOF")
    ELSE goto(l, "nil")

\* lexAnythingEnd with the goroutine recording the error in LastError.
lexAnythingEndSetsLastError(l) ==
    IF l.start # Len(l.input)
    THEN emitThen([l EXCEPT !.LastError = <<"lexical error">>], "tokenTypeError", "emitEOF")
    ELSE emitThen(l, "tokenTypeEOF", "nil")

\* lines 176-178: pending text at the end of the loop is an error token,
\* and the end marker of line 180 follows it.
lexAnythingEnd(l) ==
    IF l.start # Len(l.input)
    THEN emitThen(l, "tokenTypeError", "emitEOF")
    ELSE emitThen(l, "tokenTypeEOF", "nil")

\* lines 180-181 after an error token.
lexAnythingEOF(l) == emitThen(l, "tokenTypeEOF", "nil")

----------------------------------------------------------------------------
\* The state functions lexAnything hands over to.  They are named by
\* lexAnything but written in another file of the package; they are
\* modelled from sections 4.1 and 4.2 of the specification.

Digits == 48..57

IdentRunes == {r \in 48..122 : IsDigit(r) \/ IsLetter(r)}

\* Numeric literal: digits; a decimal point and further digits make a float.
lexNumber(l) ==
    LET a == acceptRun(l, Digits)
        b == accept(a, {46})
    IN  IF b.ok /\ IsDigit(peek(b.l).r)
        THEN emitThen(acceptRun(b.l, Digits), "tokenTypeFloat", "lexAnything")
        ELSE emitThen(a, "tokenTypeInteger", "lexAnything")

\* A scan that takes a quote after a backslash for the closing quote.
RECURSIVE scanToAnyQuote(_)
scanToAnyQuote(l) ==
    LET n == next(l)
    IN  IF n.r = eof THEN [l |-> n.l, closed |-> FALSE]
        ELSE IF n.r = 39 THEN [l |-> backup(n.l), closed |-> TRUE]
        ELSE scanToAnyQuote(n.l)

\* Runs to the closing quote, which it leaves unread, or to the end of the
\* input; backslash-quote is passed over and kept.
RECURSIVE scanSingleQuote(_)
scanSingleQuote(l) ==
    LET n == next(l)
    IN  IF n.r = eof THEN [l |-> n.l, closed |-> FALSE]
        ELSE IF n.r = 39 THEN [l |-> backup(n.l), closed |-> TRUE]
        ELSE IF n.r = 92 /\ peek(n.l).r = 39 THEN scanSingleQuote(next(n.l).l)
        ELSE scanSingleQuote(n.l)

\* Single-quoted string: the token excludes both quotes; an unterminated
\* literal emits an error token and halts production.
lexSingleQuoteString(l) ==
    LET s == scanSingleQuote(ignore(l))
    IN  IF s.closed
        THEN emitThen(s.l, "tokenTypeString", "lexSingleQuoteStringEnd")
        ELSE emitThen(s.l, "tokenTypeError", "nil")

\* After the string token: step over the closing quote.
lexSingleQuoteStringEnd(l) == goto(ignore(next(l).l), "lexAnything")

\* Symbol: the read mark already stands after the colon.
lexSymbol(l) ==
    LET a == acceptRun(l, {64})
        b == acceptRun(a, IdentRunes)
        c == accept(b, {33, 63})
    IN  emitThen(c.l, "tokenTypeSymbol", "lexAnything")

\* Runs to the end of the line, leaving the newline unread.
RECURSIVE skipLine(_)
skipLine(l) ==
    LET n == next(l)
    IN  IF n.r = eof \/ n.r = 10 THEN backup(n.l) ELSE skipLine(n.l)

\* After blanks: a backslash at the end of the line escapes the newline,
\* and the blanks and the comments of the lines that follow go with it.  A
\* backslash with no newline after it is left unread.
RECURSIVE continuation(_)
RECURSIVE continuationLine(_)
continuation(l) ==
    LET b == accept(l, {92})
        n == accept(b.l, {10})
    IN  IF b.ok /\ n.ok THEN continuationLine(acceptRun(n.l, {32, 9})) ELSE l

continuationLine(l) ==
    IF peek(l).r = 35
    THEN continuationLine(acceptRun(accept(skipLine(l), {10}).l, {32, 9}))
    ELSE continuation(l)

\* Blanks within a line, with the escaped newlines that follow them; the
\* token is insignificant.
lexWhitespace(l) ==
    emitThen(continuation(acceptRun(l, {32, 9})), "tokenTypeWhitespace", "lexAnything")

lexNewlines(l) ==
    emitThen(acceptRun(l, {10}), "tokenTypeNewline", "lexAnything")

\* The reserved words that have a token kind of their own.
Keyword(text) ==
    CASE text = <<100, 101, 102>> -> "tokenTypeDEF"
      [] text = <<101, 110, 100>> -> "tokenTypeEND"
      [] text = <<99, 108, 97, 115, 115>> -> "tokenTypeCLASS"
      [] text = <<109, 111, 100, 117, 108, 101>> -> "tokenTypeMODULE"
      [] text = <<116, 114, 117, 101>> -> "tokenTypeTRUE"
      [] text = <<102, 97, 108, 115, 101>> -> "tokenTypeFALSE"
      [] OTHER -> ""

\* Identifier or keyword; a leading upper-case letter is a constant.
lexReference(l) ==
    LET a == accept(acceptRun(l, IdentRunes), {33, 63}).l
        text == Slice(a.input, a.start, a.pos)
        first == l.input[l.pos + 1]
    IN  IF Keyword(text) # "" THEN emitThen(a, Keyword(text), "lexAnything")
        ELSE IF first >= 65 /\ first <= 90
             THEN emitThen(a, "tokenTypeCapitalizedReference", "lexAnything")
        ELSE emitThen(a, "tokenTypeReference", "lexAnything")

\* Comment: discarded, no token.
lexComment(l) == goto(ignore(skipLine(l)), "lexAnything")

\* Double-quoted strings, like heredocs below, are lexed by the package's
\* other lexer (NewLexer), which is not among the sources; the state
\* function is modelled from section 4.2 of the specification on the same
\* cursor.

Pop(st) == SubSeq(st, 1, Len(st) - 1)

\* A scan that takes the first double quote for the end of the string.
RECURSIVE scanToFirstQuote(_, _)
scanToFirstQuote(l, st) ==
    LET n == next(l)
    IN  IF n.r = eof THEN [l |-> n.l, closed |-> FALSE]
        ELSE IF n.r = 34 THEN [l |-> backup(n.l), closed |-> TRUE]
        ELSE scanToFirstQuote(n.l, st)

\* Runs to the double quote that closes the string, which it leaves
\* unread, or to the end of the input.  st is the nesting, innermost last:
\* "s" in a string, "i" in the code of an interpolation region.
RECURSIVE scanDoubleQuote(_, _)
scanDoubleQuote(l, st) ==
    LET n == next(l)
        top == st[Len(st)]
    IN  IF n.r = eof THEN [l |-> n.l, closed |-> FALSE]
        ELSE IF top = "s" THEN
            IF n.r = 34 THEN
                IF Len(st) = 1 THEN [l |-> backup(n.l), closed |-> TRUE]
                ELSE scanDoubleQuote(n.l, Pop(st))
            ELSE IF n.r = 92 THEN scanDoubleQuote(next(n.l).l, st)
            ELSE IF n.r = 35 /\ peek(n.l).r = 123
                 THEN scanDoubleQuote(next(n.l).l, Append(st, "i"))
            ELSE scanDoubleQuote(n.l, st)
        ELSE
            IF n.r = 34 THEN scanDoubleQuote(n.l, Append(st, "s"))
            ELSE IF n.r = 123 THEN scanDoubleQuote(n.l, Append(st, "i"))
            ELSE IF n.r = 125 THEN scanDoubleQuote(n.l, Pop(st))
            ELSE scanDoubleQuote(n.l, st)

\* Double-quoted string: the token is the raw template between the outer
\* quotes; an unterminated literal emits an error token and halts.
lexDoubleQuoteString(l) ==
    LET s == scanDoubleQuote(ignore(next(l).l), <<"s">>)
    IN  IF s.closed
        THEN emitThen(s.l, "tokenTypeString", "lexDoubleQuoteStringEnd")
        ELSE emitThen(s.l, "tokenTypeError", "nil")

\* After the string token: step over the closing quote.
lexDoubleQuoteStringEnd(l) == goto(ignore(next(l).l), "lexAnything")

\* Heredoc lexing belongs to the package's other lexer (NewLexer), which is
\* not among the sources; it is modelled from section 4.2 of the
\* specification as a state function on the same cursor.

\* The offset of the first newline at or after a, or the end of the input.
RECURSIVE lineEnd(_, _)
lineEnd(input, a) ==
    IF a >= Len(input) \/ input[a + 1] = 10 THEN a ELSE lineEnd(input, a + 1)

RECURSIVE stripBlanks(_)
stripBlanks(line) ==
    IF line # <<>> /\ line[1] \in {32, 9} THEN stripBlanks(Tail(line)) ELSE line

\* A terminator line whatever its indentation.
isTerminatorIndented(line, id, dashed) == stripBlanks(line) = id

\* The line ends the literal: the identifier alone, from column 0; with the
\* dash the identifier may be indented.
isTerminator(line, id, dashed) ==
    IF dashed THEN stripBlanks(line) = id ELSE line = id

\* The offset of the first terminator line at or after the line starting
\* at a, or -1 when the input ends without one.
RECURSIVE findTerminator(_, _, _, _)
findTerminator(input, a, id, dashed) ==
    LET e == lineEnd(input, a)
    IN  IF isTerminator(Slice(input, a, e), id, dashed) THEN a
        ELSE IF e >= Len(input) THEN 0 - 1
        ELSE findTerminator(input, e + 1, id, dashed)

\* Heredoc: the opener `<<`, an optional dash and the identifier; the body
\* starts on the next line and runs up to the terminator line, without the
\* newline before it.  A literal without terminator is an error token.
lexHeredoc(l) ==
    LET d == accept(acceptRun(l, {60}), {45})
        i == acceptRun(d.l, IdentRunes)
        id == Slice(i.input, d.l.pos, i.pos)
        b == ignore(next(skipLine(i)).l)
        t == findTerminator(b.input, b.pos, id, d.ok)
    IN  IF id = <<>> \/ t < 0
        THEN emitThen([b EXCEPT !.pos = Len(b.input)], "tokenTypeError", "nil")
        ELSE emitThen([b EXCEPT !.pos = IF t = b.pos THEN t ELSE t - 1],
                      "tokenTypeString", "lexHeredocEnd")

\* After the token: step over the newline that ends the body and over the
\* terminator line.
lexHeredocEnd(l) == goto(ignore(skipLine(accept(l, {10}).l)), "lexAnything")

----------------------------------------------------------------------------
\* Construction, the channel and the goroutine `run`.

Lexers == DOMAIN lexer

\* the nil error value of LastError (line 69): an error with no message.
nil == <<>>

\* One channel for every lexer, as a package-level channel would be.
sharedChan(n) == 1

\* make(chan token): every call makes a channel of its own; the channel made
\* by the n-th NewBetterLexer call is named n.
makeChan(n) == n

NewBetterLexer(n, input) ==
    [input |-> input, start |-> 0, pos |-> 0, width |-> 0,
     tokens |-> makeChan(n), LastError |-> nil]

\* A channel holds the values of the senders parked on it, oldest first,
\* each with the parse whose goroutine sent it.
emptyChan == [buf |-> <<>>, closed |-> FALSE]

\* A send that returns at once, as on a channel with room in its buffer.
sendCompletesAtOnce(ch, i) == TRUE

\* `tokens <- token` on an unbuffered channel returns once a receiver has
\* taken the value.
sendCompletes(ch, i) == \A k \in 1..Len(ch.buf) : ch.buf[k].by # i

\* A receive that leaves the value on the channel.
recvKeeps(ch) == ch

\* One receive of `range lexer.tokens`: the oldest value leaves the channel.
recv(ch) == [ch EXCEPT !.buf = Tail(@)]

\* A range loop that ends as soon as no value is waiting.
rangeEndsWhenEmpty(ch) == ch.buf = <<>>

\* `range lexer.tokens` ends when the channel is closed and drained.
rangeEnds(ch) == ch.closed /\ ch.buf = <<>>

\* emit up to its send (lines 231-234): the token is cut from the input and
\* the goroutine parks on the channel; `after` is where it goes on when emit
\* has returned.  A send on a closed channel panics.
emit(i, l, t, after) ==
    LET tok == [typ |-> t, value |-> Slice(l.input, l.start, l.pos)]
    IN  /\ lexer' = [lexer EXCEPT ![i] = l]
        /\ IF chans[l.tokens].closed
           THEN /\ producer' = [producer EXCEPT ![i] = [pc |-> "panic", after |-> ""]]
                /\ crashed' = TRUE
                /\ UNCHANGED <<chans, emitted>>
           ELSE /\ chans' = [chans EXCEPT ![l.tokens].buf =
                                 Append(@, [tok |-> tok, by |-> i])]
                /\ emitted' = [emitted EXCEPT ![i] = Append(@, tok)]
                /\ producer' = [producer EXCEPT ![i] = [pc |-> "send", after |-> after]]
                /\ UNCHANGED crashed
        /\ UNCHANGED <<consumer, received, returned, call>>

\* One step of the loop of `run` (line 86) with the state function's result:
\* an emit parks the goroutine, a panic ends the program, anything else
\* moves to the next place.
step(i, res) ==
    IF res.emit # "" THEN emit(i, res.l, res.emit, res.next)
    ELSE /\ lexer' = [lexer EXCEPT ![i] = res.l]
         /\ producer' = [producer EXCEPT ![i] = [pc |-> res.next, after |-> ""]]
         /\ crashed' = (res.next = "panic")
         /\ UNCHANGED <<chans, emitted, consumer, received, returned, call>>

at(i, pc) == ~crashed /\ producer[i].pc = pc

LexAnything(i) == at(i, "lexAnything") /\ step(i, lexAnything(lexer[i]))

LexAnythingPeek(i) == at(i, "peekEOF") /\ step(i, lexAnythingPeek(lexer[i]))

LexAnythingEnd(i) == at(i, "atEnd") /\ step(i, lexAnythingEnd(lexer[i]))

LexAnythingEOF(i) == at(i, "emitEOF") /\ step(i, lexAnythingEOF(lexer[i]))

LexNumber(i) == at(i, "lexNumber") /\ step(i, lexNumber(lexer[i]))

LexSingleQuoteString(i) ==
    at(i, "lexSingleQuoteString") /\ step(i, lexSingleQuoteString(lexer[i]))

LexSingleQuoteStringEnd(i) ==
    at(i, "lexSingleQuoteStringEnd") /\ step(i, lexSingleQuoteStringEnd(lexer[i]))

LexSymbol(i) == at(i, "lexSymbol") /\ step(i, lexSymbol(lexer[i]))

LexWhitespace(i) == at(i, "lexWhitespace") /\ step(i, lexWhitespace(lexer[i]))

LexNewlines(i) == at(i, "lexNewlines") /\ step(i, lexNewlines(lexer[i]))

LexReference(i) == at(i, "lexReference") /\ step(i, lexReference(lexer[i]))

LexComment(i) == at(i, "lexComment") /\ step(i, lexComment(lexer[i]))

LexDoubleQuoteString(i) ==
    at(i, "lexDoubleQuoteString") /\ step(i, lexDoubleQuoteString(lexer[i]))

LexDoubleQuoteStringEnd(i) ==
    at(i, "lexDoubleQuoteStringEnd") /\ step(i, lexDoubleQuoteStringEnd(lexer[i]))

LexHeredoc(i) == at(i, "lexHeredoc") /\ step(i, lexHeredoc(lexer[i]))

LexHeredocEnd(i) == at(i, "lexHeredocEnd") /\ step(i, lexHeredocEnd(lexer[i]))

\* emit returning without line 236.
EmitReturnKeepsMark(i) ==
    /\ at(i, "send")
    /\ sendCompletes(chans[lexer[i].tokens], i)
    /\ producer' = [producer EXCEPT ![i] = [pc |-> producer[i].after, after |-> ""]]
    /\ UNCHANGED <<lexer, chans, consumer, emitted, received, returned, crashed, call>>

\* emit after its send (line 236): the read mark moves up to the position.
EmitReturn(i) ==
    /\ at(i, "send")
    /\ sendCompletes(chans[lexer[i].tokens], i)
    /\ lexer' = [lexer EXCEPT ![i].start = lexer[i].pos]
    /\ producer' = [producer EXCEPT ![i] = [pc |-> producer[i].after, after |-> ""]]
    /\ UNCHANGED <<chans, consumer, emitted, received, returned, crashed, call>>

\* run ending without closing the channel.
RunReturn(i) ==
    /\ at(i, "nil")
    /\ producer' = [producer EXCEPT ![i] = [pc |-> "done", after |-> ""]]
    /\ UNCHANGED <<lexer, chans, consumer, emitted, received, returned, crashed, call>>

\* run, line 89: the state is nil and the channel is closed; closing a
\* closed channel panics.
RunClose(i) ==
    /\ at(i, "nil")
    /\ IF chans[lexer[i].tokens].closed
       THEN /\ producer' = [producer EXCEPT ![i] = [pc |-> "panic", after |-> ""]]
            /\ crashed' = TRUE
            /\ UNCHANGED chans
       ELSE /\ chans' = [chans EXCEPT ![lexer[i].tokens].closed = TRUE]
            /\ producer' = [producer EXCEPT ![i] = [pc |-> "done", after |-> ""]]
            /\ UNCHANGED crashed
    /\ UNCHANGED <<lexer, consumer, emitted, received, returned, call>>

----------------------------------------------------------------------------
\* The consumer side: Lex and Error.

RECURSIVE digitsValue(_)
digitsValue(s) ==
    IF s = <<>> THEN 0
    ELSE digitsValue(SubSeq(s, 1, Len(s) - 1)) * 10 + (s[Len(s)] - 48)

AllDigits(s) == s # <<>> /\ \A k \in 1..Len(s) : IsDigit(s[k])

\* The digits without their leading zeros.
RECURSIVE significant(_)
significant(s) ==
    IF s # <<>> /\ s[1] = 48 THEN significant(Tail(s)) ELSE s

\* s comes after t in the order of the strings.
RECURSIVE greater(_, _)
greater(s, t) ==
    IF s = <<>> THEN FALSE
    ELSE IF t = <<>> THEN TRUE
    ELSE IF s[1] # t[1] THEN s[1] > t[1]
    ELSE greater(Tail(s), Tail(t))

\* The digits of 1<<63 - 1, the largest int (9223372036854775807).
maxIntDigits ==
    <<57, 50, 50, 51, 51, 55, 50, 48, 51, 54, 56, 53, 52, 55, 55, 53, 56, 48, 55>>

\* The digits of 1<<63, the size of the smallest int.
minIntDigits ==
    <<57, 50, 50, 51, 51, 55, 50, 48, 51, 54, 56, 53, 52, 55, 55, 53, 56, 48, 56>>

\* The digit run stands for a size above the limit; the test is on the
\* digits, since the value itself is not to be computed then.
outOfRange(body, limit) ==
    LET d == significant(body)
    IN  \/ Len(d) > Len(limit)
        \/ Len(d) = Len(limit) /\ greater(d, limit)

\* strconv.Atoi: an optional sign and decimal digits, read in base 10;
\* anything else is a syntax error, and a value outside the 64 bits of int
\* is a range error.
Atoi(s) ==
    LET signed == s # <<>> /\ s[1] \in {43, 45}
        body == IF signed THEN Tail(s) ELSE s
        neg == signed /\ s[1] = 45
    IN  IF ~AllDigits(body) THEN [ok |-> FALSE, val |-> 0]
        ELSE IF outOfRange(body, IF neg THEN minIntDigits ELSE maxIntDigits)
        THEN [ok |-> FALSE, val |-> 0]
        ELSE [ok |-> TRUE,
              val |-> IF neg THEN 0 - digitsValue(body) ELSE digitsValue(body)]

RECURSIVE normalize(_, _)
normalize(mant, exp) ==
    IF exp < 0 /\ mant % 10 = 0 THEN normalize(mant \div 10, exp + 1)
    ELSE [mant |-> mant, exp |-> exp]

\* strconv.ParseFloat on the texts a number token can hold: digits, then
\* optionally a point and digits; the value is mant * 10^exp.
ParseFloat(s) ==
    LET dots == {k \in 1..Len(s) : s[k] = 46}
    IN  IF dots = {} THEN
            IF AllDigits(s) THEN [ok |-> TRUE, val |-> normalize(digitsValue(s), 0)]
            ELSE [ok |-> FALSE, val |-> normalize(0, 0)]
        ELSE LET k == CHOOSE d \in dots : TRUE
                 int == SubSeq(s, 1, k - 1)
                 frac == SubSeq(s, k + 1, Len(s))
             IN  IF Cardinality(dots) = 1 /\ AllDigits(int \o frac)
                    /\ (int # <<>> \/ frac # <<>>)
                 THEN [ok |-> TRUE,
                       val |-> normalize(digitsValue(int \o frac), 0 - Len(frac))]
                 ELSE [ok |-> FALSE, val |-> normalize(0, 0)]

noNode == [node |-> "none"]

ret(code, node) == [panics |-> FALSE, code |-> code, node |-> node]

lexPanic == [panics |-> TRUE, code |-> "", node |-> noNode]

\* The panic of the default branch (line 363).
unknownToken == [panics |-> TRUE, code |-> "unknown token", node |-> noNode]

\* A switch with cases for the end marker and the Error token only.
lexSwitchFewCases(token) ==
    CASE token.typ = "tokenTypeEOF" -> ret("EOF", noNode)
      [] token.typ = "tokenTypeError" -> lexPanic
      [] OTHER -> unknownToken

\* The switch of Lex (lines 244-364) on one received token: the parser
\* symbol returned and the node stored in lval, or a panic.
lexSwitch(token) ==
    LET t == token.typ
        v == token.value
    IN  CASE t = "tokenTypeInteger" ->
               IF Atoi(v).ok
               THEN ret("NODE", [node |-> "ConstantInt", Value |-> Atoi(v).val])
               ELSE lexPanic
          [] t = "tokenTypeFloat" ->
               IF ParseFloat(v).ok
               THEN ret("NODE", [node |-> "ConstantFloat", Value |-> ParseFloat(v).val])
               ELSE lexPanic
          [] t = "tokenTypeString" -> ret("NODE", [node |-> "SimpleString", Value |-> v])
          [] t = "tokenTypeSymbol" -> ret("NODE", [node |-> "Symbol", Name |-> v])
          [] t = "tokenTypeReference" -> ret("REF", [node |-> "BareReference", Name |-> v])
          [] t = "tokenTypeCapitalizedReference" ->
               ret("CAPITAL_REF", [node |-> "BareReference", Name |-> v])
          [] t = "tokenTypeLParen" -> ret("LPAREN", noNode)
          [] t = "tokenTypeRParen" -> ret("RPAREN", noNode)
          [] t = "tokenTypeComma" -> ret("COMMA", noNode)
          [] t = "tokenTypeWhitespace" -> ret("WHITESPACE", noNode)
          [] t = "tokenTypeNewline" -> ret("NEWLINE", noNode)
          [] t = "tokenTypeEOF" -> ret("EOF", noNode)
          [] t = "tokenTypeDEF" -> ret("DEF", noNode)
          [] t = "tokenTypeEND" -> ret("END", noNode)
          [] t = "tokenTypeCLASS" -> ret("CLASS", noNode)
          [] t = "tokenTypeMODULE" -> ret("MODULE", noNode)
          [] t = "tokenTypeTRUE" -> ret("TRUE", noNode)
          [] t = "tokenTypeFALSE" -> ret("FALSE", noNode)
          [] t = "tokenTypeLessThan" -> ret("LESSTHAN", noNode)
          [] t = "tokenTypeGreaterThan" -> ret("GREATERTHAN", noNode)
          [] t = "tokenTypeColon" -> ret("COLON", noNode)
          [] t = "tokenTypeEqual" -> ret("EQUALTO", noNode)
          [] t = "tokenTypeBang" -> ret("BANG", noNode)
          [] t = "tokenTypeTilde" -> ret("COMPLEMENT", noNode)
          [] t = "tokenTypePlus" -> ret("POSITIVE", noNode)
          [] t = "tokenTypeMinus" -> ret("NEGATIVE", noNode)
          [] t = "tokenTypeStar" -> ret("STAR", noNode)
          [] t = "tokenTypeLBracket" -> ret("LBRACKET", noNode)
          [] t = "tokenTypeRBracket" -> ret("RBRACKET", noNode)
          [] t = "tokenTypeLBrace" -> ret("LBRACE", noNode)
          [] t = "tokenTypeRBrace" -> ret("RBRACE", noNode)
          [] t = "tokenTypeDollarSign" -> ret("DOLLARSIGN", noNode)
          [] t = "tokenTypeAtSign" -> ret("ATSIGN", noNode)
          [] t = "tokenTypeError" -> lexPanic
          [] OTHER -> unknownToken

\* What Lex returns at line 367, when the channel is closed and drained.
LexZero == "0"

\* Error keeping the parser's message as it is.
ErrorBare(l, msg) == [l EXCEPT !.LastError = <<msg>>]

\* Error (lines 370-372): the message kept in LastError.
Error(l, msg) == [l EXCEPT !.LastError = <<"syntax error: ", msg, "\n">>]

----------------------------------------------------------------------------
\* The parser that calls Lex and Error.  The grammar is generated code that
\* is not part of the files at hand; it is modelled from sections 4.4 and 7
\* of the specification as far as the lexer's contract needs it: it pulls
\* one token at a time, stops at the end of the stream, and aborts at the
\* first structural violation, of which unbalanced delimiters and a class
\* name in lower case are modelled.

OpenerOf(code) ==
    CASE code = "RPAREN" -> "LPAREN"
      [] code = "RBRACKET" -> "LBRACKET"
      [] code = "RBRACE" -> "LBRACE"
      [] OTHER -> ""

\* The delimiters still open after the codes, innermost last; <<"!">> once
\* a closing delimiter has come without its opener.
RECURSIVE openDelims(_)
openDelims(codes) ==
    IF codes = <<>> THEN <<>>
    ELSE LET st == openDelims(SubSeq(codes, 1, Len(codes) - 1))
             c == codes[Len(codes)]
         IN  IF st = <<"!">> THEN st
             ELSE IF c \in {"LPAREN", "LBRACKET", "LBRACE"} THEN Append(st, c)
             ELSE IF OpenerOf(c) = "" THEN st
             ELSE IF st # <<>> /\ st[Len(st)] = OpenerOf(c)
                  THEN SubSeq(st, 1, Len(st) - 1)
             ELSE <<"!">>

IsEnd(code) == code \in {"EOF", LexZero}

\* The codes without the blanks between the tokens.
solid(codes) == SelectSeq(codes, LAMBDA c : c # "WHITESPACE")

\* The name that has just come after the class keyword starts with a
\* lower-case letter.
lowerCaseClass(codes) ==
    LET c == solid(codes)
    IN  Len(c) >= 2 /\ c[Len(c) - 1] = "CLASS" /\ c[Len(c)] = "REF"
           /\ codes[Len(codes)] = "REF"

\* The parser aborts on the codes returned so far.
parserRejects(codes) ==
    \/ lowerCaseClass(codes)
    \/ openDelims(codes) = <<"!">>
    \/ codes # <<>> /\ IsEnd(codes[Len(codes)]) /\ openDelims(codes) # <<>>

\* A newline ends a statement wherever it stands.
endsStatementAnywhere(codes) ==
    codes[Len(codes)] = "NEWLINE" \/ IsEnd(codes[Len(codes)])

\* The last code ends a statement: a newline, or the end of the stream,
\* with no delimiter open.
endsStatement(codes) ==
    /\ codes[Len(codes)] = "NEWLINE" \/ IsEnd(codes[Len(codes)])
    /\ openDelims(codes) = <<>>

\* The parser's count of the statements ended, and whether one is begun.
statementsOn(c, codes) ==
    IF endsStatement(codes)
    THEN [c EXCEPT !.stmts = IF c.inStmt THEN @ + 1 ELSE @, !.inStmt = FALSE]
    ELSE IF codes[Len(codes)] \in {"WHITESPACE", "NEWLINE"} THEN c
    ELSE [c EXCEPT !.inStmt = TRUE]

\* The parser's move on a value returned by Lex.
parserOn(c, codes) ==
    IF parserRejects(codes) THEN [c EXCEPT !.pc = "error"]
    ELSE IF IsEnd(codes[Len(codes)])
         THEN [statementsOn(c, codes) EXCEPT !.pc = "parse", !.ended = TRUE]
    ELSE [statementsOn(c, codes) EXCEPT !.pc = "parse"]

noToken == [typ |-> "", value |-> <<>>]

newConsumer ==
    [pc |-> "parse", token |-> noToken, extra |-> 0, ended |-> FALSE,
     result |-> "", lvals |-> <<>>, stmts |-> 0, inStmt |-> FALSE]

\* The nodes built so far, whatever the outcome.
StatementsSoFar(i) == consumer[i].lvals

\* The statement list the caller gets: the nodes Lex handed over, and
\* nothing of them after a failure.
Statements(i) ==
    IF consumer[i].result = "success" THEN consumer[i].lvals ELSE <<>>

\* The parser calls Lex (line 239); after the end of the stream it does so
\* at most MaxExtraLex times more.
CallLex(i) ==
    /\ ~crashed
    /\ consumer[i].pc = "parse"
    /\ consumer[i].ended => consumer[i].extra < MaxExtraLex
    /\ consumer' = [consumer EXCEPT ![i].pc = "lex",
                       ![i].extra = IF consumer[i].ended THEN @ + 1 ELSE @]
    /\ UNCHANGED <<lexer, chans, producer, emitted, received, returned, crashed, call>>

\* Lex, line 243: the range loop receives one token.
LexRecv(i) ==
    /\ ~crashed
    /\ consumer[i].pc = "lex"
    /\ chans[lexer[i].tokens].buf # <<>>
    /\ LET token == Head(chans[lexer[i].tokens].buf).tok
       IN  /\ chans' = [chans EXCEPT ![lexer[i].tokens] = recv(@)]
           /\ received' = [received EXCEPT ![i] = Append(@, token)]
           /\ consumer' = [consumer EXCEPT ![i].pc = "switch", ![i].token = token]
    /\ UNCHANGED <<lexer, producer, emitted, returned, crashed, call>>

\* Lex, lines 244-364: the switch returns the token's parser symbol, or
\* panics; the parser takes the returned value.
LexSwitch(i) ==
    /\ ~crashed
    /\ consumer[i].pc = "switch"
    /\ LET out == lexSwitch(consumer[i].token)
           codes == Append(returned[i], out.code)
           c == [consumer[i] EXCEPT !.token = noToken,
                     !.lvals = IF out.node = noNode THEN @ ELSE Append(@, out.node)]
       IN  IF out.panics
           THEN /\ consumer' = [consumer EXCEPT ![i].pc = "panic"]
                /\ crashed' = TRUE
                /\ UNCHANGED returned
           ELSE /\ returned' = [returned EXCEPT ![i] = codes]
                /\ consumer' = [consumer EXCEPT ![i] = parserOn(c, codes)]
                /\ UNCHANGED crashed
    /\ UNCHANGED <<lexer, chans, producer, emitted, received, call>>

\* Lex, lines 243 and 367: the channel is closed and drained, Lex returns 0.
LexClosed(i) ==
    /\ ~crashed
    /\ consumer[i].pc = "lex"
    /\ rangeEnds(chans[lexer[i].tokens])
    /\ LET codes == Append(returned[i], LexZero)
       IN  /\ returned' = [returned EXCEPT ![i] = codes]
           /\ consumer' = [consumer EXCEPT ![i] = parserOn(consumer[i], codes)]
    /\ UNCHANGED <<lexer, chans, producer, emitted, received, crashed, call>>

\* The parser reports the violation through Error and gives up.
ParseError(i) ==
    /\ ~crashed
    /\ consumer[i].pc = "error"
    /\ lexer' = [lexer EXCEPT ![i] = Error(@, "unexpected")]
    /\ consumer' = [consumer EXCEPT ![i].pc = "done", ![i].result = "failure"]
    /\ UNCHANGED <<chans, producer, emitted, received, returned, crashed, call>>

\* The parser has seen the end of the stream and returns success.
ParseAccept(i) ==
    /\ ~crashed
    /\ consumer[i].pc = "parse"
    /\ consumer[i].ended
    /\ consumer' = [consumer EXCEPT ![i].pc = "done", ![i].result = "success"]
    /\ UNCHANGED <<lexer, chans, producer, emitted, received, returned, crashed, call>>

\* The caller gives the parse up before the end of the stream: Lex is not
\* called again.
Abandon(i) ==
    /\ ~crashed
    /\ consumer[i].pc = "parse"
    /\ ~consumer[i].ended
    /\ consumer' = [consumer EXCEPT ![i].pc = "abandoned"]
    /\ UNCHANGED <<lexer, chans, producer, emitted, received, returned, crashed, call>>

----------------------------------------------------------------------------
\* One parse run by itself, as a function of its input.

\* The state function, or the part of lexAnything, that runs at a place.
stateFn(pc, l) ==
    CASE pc = "lexAnything" -> lexAnything(l)
      [] pc = "peekEOF" -> lexAnythingPeek(l)
      [] pc = "atEnd" -> lexAnythingEnd(l)
      [] pc = "emitEOF" -> lexAnythingEOF(l)
      [] pc = "lexNumber" -> lexNumber(l)
      [] pc = "lexSingleQuoteString" -> lexSingleQuoteString(l)
      [] pc = "lexSingleQuoteStringEnd" -> lexSingleQuoteStringEnd(l)
      [] pc = "lexSymbol" -> lexSymbol(l)
      [] pc = "lexWhitespace" -> lexWhitespace(l)
      [] pc = "lexNewlines" -> lexNewlines(l)
      [] pc = "lexReference" -> lexReference(l)
      [] pc = "lexComment" -> lexComment(l)
      [] pc = "lexHeredoc" -> lexHeredoc(l)
      [] pc = "lexDoubleQuoteString" -> lexDoubleQuoteString(l)
      [] pc = "lexDoubleQuoteStringEnd" -> lexDoubleQuoteStringEnd(l)
      [] pc = "lexHeredocEnd" -> lexHeredocEnd(l)

\* The loop of `run` with every emit received at once: the tokens emitted
\* up to the state nil or a panic.
RECURSIVE runLoop(_, _, _)
runLoop(l, pc, out) ==
    IF pc \in {"nil", "panic"} THEN [tokens |-> out, end |-> pc]
    ELSE LET res == stateFn(pc, l)
         IN  IF res.emit = "" THEN runLoop(res.l, res.next, out)
             ELSE runLoop([res.l EXCEPT !.start = res.l.pos], res.next,
                          Append(out, [typ |-> res.emit,
                                       value |-> Slice(res.l.input, res.l.start, res.l.pos)]))

TokenStream(input) == runLoop(NewBetterLexer(1, input), "lexAnything", <<>>)

\* The consumer side on the tokens from the k-th on, `codes` being what Lex
\* has returned so far: the parse stops pulling at the token Lex panics on
\* or the parser aborts on.
RECURSIVE pull(_, _, _)
pull(toks, k, codes) ==
    IF k > Len(toks) THEN toks
    ELSE LET out == lexSwitch(toks[k])
         IN  IF out.panics \/ parserRejects(Append(codes, out.code))
             THEN SubSeq(toks, 1, k)
             ELSE pull(toks, k + 1, Append(codes, out.code))

\* The tokens a parse of the input pulls when it runs by itself.
Delivered(input) == pull(TokenStream(input).tokens, 1, <<>>)

----------------------------------------------------------------------------
\* Specifications.

\* No scanner method has been called by itself.  `since` tells what was
\* called after the latest next that has not been backed up ("" when
\* there is none, "next" when nothing was, "peek" when only peek was), and
\* `mark` is the position before that next.
noCall ==
    [op |-> "", valid |-> {}, from |-> NewBetterLexer(1, <<>>), r |-> 0, ok |-> FALSE,
     since |-> "", mark |-> 0]

\* The state after the NewBetterLexer calls for the inputs: the structs, a
\* channel for each, the goroutines started at lexAnything (line 80).
InitWith(inputs) ==
    /\ lexer = [n \in DOMAIN inputs |-> NewBetterLexer(n, inputs[n])]
    /\ chans = [c \in {makeChan(n) : n \in DOMAIN inputs} |-> emptyChan]
    /\ producer = [n \in DOMAIN inputs |-> [pc |-> "lexAnything", after |-> ""]]
    /\ consumer = [n \in DOMAIN inputs |-> newConsumer]
    /\ emitted = [n \in DOMAIN inputs |-> <<>>]
    /\ received = [n \in DOMAIN inputs |-> <<>>]
    /\ returned = [n \in DOMAIN inputs |-> <<>>]
    /\ crashed = FALSE
    /\ call = noCall

Init == \E input \in Strings(Alphabet, MaxLen) : InitWith(<<input>>)

PairInputs == Strings(AlphabetPair, MaxLenPair) \cup PairSamples

\* Two parses at once: of the same input, or the second of a sample input.
InitPair ==
    \E a \in PairInputs : \E b \in {a} \cup PairSamples : InitWith(<<a, b>>)

Next ==
    \/ \E i \in Lexers : LexAnything(i)
    \/ \E i \in Lexers : LexAnythingPeek(i)
    \/ \E i \in Lexers : LexAnythingEnd(i)
    \/ \E i \in Lexers : LexAnythingEOF(i)
    \/ \E i \in Lexers : LexNumber(i)
    \/ \E i \in Lexers : LexSingleQuoteString(i)
    \/ \E i \in Lexers : LexSingleQuoteStringEnd(i)
    \/ \E i \in Lexers : LexSymbol(i)
    \/ \E i \in Lexers : LexWhitespace(i)
    \/ \E i \in Lexers : LexNewlines(i)
    \/ \E i \in Lexers : LexReference(i)
    \/ \E i \in Lexers : LexComment(i)
    \/ \E i \in Lexers : EmitReturn(i)
    \/ \E i \in Lexers : RunClose(i)
    \/ \E i \in Lexers : CallLex(i)
    \/ \E i \in Lexers : LexRecv(i)
    \/ \E i \in Lexers : LexSwitch(i)
    \/ \E i \in Lexers : LexClosed(i)
    \/ \E i \in Lexers : ParseError(i)
    \/ \E i \in Lexers : ParseAccept(i)

Spec == Init /\ [][Next]_vars

\* The inputs that lexAnything handles by itself, without handing over to
\* another state function, and the steps such inputs take.
InitCore == \E input \in Strings(AlphabetCore, MaxLen) : InitWith(<<input>>)

NextCore ==
    \/ \E i \in Lexers : LexAnything(i)
    \/ \E i \in Lexers : LexAnythingPeek(i)
    \/ \E i \in Lexers : LexAnythingEnd(i)
    \/ \E i \in Lexers : LexAnythingEOF(i)
    \/ \E i \in Lexers : EmitReturn(i)
    \/ \E i \in Lexers : RunClose(i)
    \/ \E i \in Lexers : CallLex(i)
    \/ \E i \in Lexers : LexRecv(i)
    \/ \E i \in Lexers : LexSwitch(i)
    \/ \E i \in Lexers : LexClosed(i)
    \/ \E i \in Lexers : ParseError(i)
    \/ \E i \in Lexers : ParseAccept(i)

SpecCore == InitCore /\ [][NextCore]_vars

SpecPair == InitPair /\ [][Next]_vars

\* Inputs with a structure the parser looks at.
InitStruct == \E input \in PairInputs \cup StructSamples : InitWith(<<input>>)

SpecStruct == InitStruct /\ [][Next]_vars

\* Inputs that are a heredoc, of identifier A with or without the dash,
\* then a body and whatever follows it; the analyzer has chosen the
\* heredoc state function.
HeredocInputs ==
    {opener \o body : opener \in {<<60, 60, 65, 10>>, <<60, 60, 45, 65, 10>>},
                      body \in Strings(AlphabetHeredoc, MaxLenBody)}

InitHeredoc ==
    /\ \E input \in HeredocInputs : lexer = <<NewBetterLexer(1, input)>>
    /\ chans = <<emptyChan>>
    /\ producer = <<[pc |-> "lexHeredoc", after |-> ""]>>
    /\ consumer = <<newConsumer>>
    /\ emitted = <<<<>>>>
    /\ received = <<<<>>>>
    /\ returned = <<<<>>>>
    /\ crashed = FALSE
    /\ call = noCall

NextHeredoc ==
    \/ \E i \in Lexers : LexHeredoc(i)
    \/ \E i \in Lexers : LexHeredocEnd(i)
    \/ \E i \in Lexers : LexAnything(i)
    \/ \E i \in Lexers : LexAnythingPeek(i)
    \/ \E i \in Lexers : LexAnythingEnd(i)
    \/ \E i \in Lexers : LexWhitespace(i)
    \/ \E i \in Lexers : LexNewlines(i)
    \/ \E i \in Lexers : LexReference(i)
    \/ \E i \in Lexers : EmitReturn(i)
    \/ \E i \in Lexers : RunClose(i)
    \/ \E i \in Lexers : CallLex(i)
    \/ \E i \in Lexers : LexRecv(i)
    \/ \E i \in Lexers : LexSwitch(i)
    \/ \E i \in Lexers : LexClosed(i)
    \/ \E i \in Lexers : ParseAccept(i)

SpecHeredoc == InitHeredoc /\ [][NextHeredoc]_vars

\* Inputs that start with a quoted string.  At a double quote the analyzer
\* has chosen the state function of double-quoted strings.
DoubleQuoted ==
    {<<34>> \o rest : rest \in Strings(AlphabetDouble, MaxLenQuoted)} \cup DoubleSamples

SingleQuoted ==
    {<<39>> \o rest : rest \in Strings(AlphabetSingle, MaxLenQuoted)} \cup SingleSamples

InitQuoted ==
    /\ \E input \in DoubleQuoted \cup SingleQuoted :
           /\ lexer = <<NewBetterLexer(1, input)>>
           /\ producer = <<[pc |-> IF input[1] = 34 THEN "lexDoubleQuoteString"
                                    ELSE "lexAnything",
                             after |-> ""]>>
    /\ chans = <<emptyChan>>
    /\ consumer = <<newConsumer>>
    /\ emitted = <<<<>>>>
    /\ received = <<<<>>>>
    /\ returned = <<<<>>>>
    /\ crashed = FALSE
    /\ call = noCall

NextQuoted ==
    \/ \E i \in Lexers : LexDoubleQuoteString(i)
    \/ \E i \in Lexers : LexDoubleQuoteStringEnd(i)
    \/ \E i \in Lexers : LexSingleQuoteString(i)
    \/ \E i \in Lexers : LexSingleQuoteStringEnd(i)
    \/ \E i \in Lexers : LexAnything(i)
    \/ \E i \in Lexers : LexAnythingPeek(i)
    \/ \E i \in Lexers : LexAnythingEnd(i)
    \/ \E i \in Lexers : LexReference(i)
    \/ \E i \in Lexers : LexComment(i)
    \/ \E i \in Lexers : EmitReturn(i)
    \/ \E i \in Lexers : RunClose(i)
    \/ \E i \in Lexers : CallLex(i)
    \/ \E i \in Lexers : LexRecv(i)
    \/ \E i \in Lexers : LexSwitch(i)
    \/ \E i \in Lexers : LexClosed(i)
    \/ \E i \in Lexers : ParseError(i)
    \/ \E i \in Lexers : ParseAccept(i)

SpecQuoted == InitQuoted /\ [][NextQuoted]_vars

\* Inputs of lines: every backslash comes after a blank, where the blanks'
\* state function meets it.
LineInputs ==
    {s \in Strings(AlphabetLines, MaxLenLines) :
        \A k \in 1..Len(s) : s[k] = 92 => k > 1 /\ s[k - 1] = 32} \cup LineSamples

InitLines == \E input \in LineInputs : InitWith(<<input>>)

NextLines ==
    \/ \E i \in Lexers : LexAnything(i)
    \/ \E i \in Lexers : LexAnythingPeek(i)
    \/ \E i \in Lexers : LexAnythingEnd(i)
    \/ \E i \in Lexers : LexNumber(i)
    \/ \E i \in Lexers : LexWhitespace(i)
    \/ \E i \in Lexers : LexNewlines(i)
    \/ \E i \in Lexers : LexComment(i)
    \/ \E i \in Lexers : EmitReturn(i)
    \/ \E i \in Lexers : RunClose(i)
    \/ \E i \in Lexers : CallLex(i)
    \/ \E i \in Lexers : LexRecv(i)
    \/ \E i \in Lexers : LexSwitch(i)
    \/ \E i \in Lexers : LexClosed(i)
    \/ \E i \in Lexers : ParseError(i)
    \/ \E i \in Lexers : ParseAccept(i)

SpecLines == InitLines /\ [][NextLines]_vars

\* Two parses, either of which the caller may give up.
NextAbandon ==
    \/ Next
    \/ \E i \in Lexers : Abandon(i)

SpecAbandon == InitPair /\ [][NextAbandon]_vars

\* The scanner by itself: a state function is at work on the cursor and
\* calls the scanner's methods one after the other, in any order that
\* keeps to the rule of backup (once per call of next).
InitScan ==
    /\ \E input \in Strings(AlphabetScan, MaxLen) : lexer = <<NewBetterLexer(1, input)>>
    /\ chans = <<emptyChan>>
    /\ producer = <<[pc |-> "scan", after |-> ""]>>
    /\ consumer = <<newConsumer>>
    /\ emitted = <<<<>>>>
    /\ received = <<<<>>>>
    /\ returned = <<<<>>>>
    /\ crashed = FALSE
    /\ call = noCall

scanned(i, op, valid, l, r, ok) ==
    /\ at(i, "scan")
    /\ lexer' = [lexer EXCEPT ![i] = l]
    /\ call' = [op |-> op, valid |-> valid, from |-> lexer[i], r |-> r, ok |-> ok,
                since |-> IF op = "next" THEN "next"
                          ELSE IF call.since = "" THEN ""
                          ELSE IF op = "peek" /\ call.since \in {"next", "peek"} THEN "peek"
                          ELSE "other",
                mark |-> IF op = "next" THEN lexer[i].pos ELSE call.mark]
    /\ UNCHANGED <<chans, producer, consumer, emitted, received, returned, crashed>>

ScanNext(i) ==
    LET n == next(lexer[i]) IN scanned(i, "next", {}, n.l, n.r, FALSE)

\* backup, called once after a next; the history keeps the cursor from
\* before that next.
ScanBackup(i) ==
    /\ at(i, "scan")
    /\ call.op = "next"
    /\ lexer' = [lexer EXCEPT ![i] = backup(@)]
    /\ call' = [call EXCEPT !.op = "backup", !.since = ""]
    /\ UNCHANGED <<chans, producer, consumer, emitted, received, returned, crashed>>

ScanIgnore(i) == scanned(i, "ignore", {}, ignore(lexer[i]), 0, FALSE)

ScanPeek(i) ==
    LET p == peek(lexer[i]) IN scanned(i, "peek", {}, p.l, p.r, FALSE)

ScanAccept(i) ==
    \E valid \in ValidSets :
        LET a == accept(lexer[i], valid) IN scanned(i, "accept", valid, a.l, 0, a.ok)

ScanAcceptRun(i) ==
    \E valid \in ValidSets :
        scanned(i, "acceptRun", valid, acceptRun(lexer[i], valid), 0, FALSE)

NextScan ==
    \/ \E i \in Lexers : ScanNext(i)
    \/ \E i \in Lexers : ScanBackup(i)
    \/ \E i \in Lexers : ScanIgnore(i)
    \/ \E i \in Lexers : ScanPeek(i)
    \/ \E i \in Lexers : ScanAccept(i)
    \/ \E i \in Lexers : ScanAcceptRun(i)

SpecScan == InitScan /\ [][NextScan]_vars

\* The scanner under the rule of backup as it is written (line 196): once
\* for each call of next, whatever was called in between.

\* backup for a next after which other methods were called.
ScanBackupLate(i) ==
    /\ at(i, "scan")
    /\ call.since \in {"peek", "other"}
    /\ lexer' = [lexer EXCEPT ![i] = backup(@)]
    /\ call' = [call EXCEPT !.op = "backup", !.since = "", !.from = lexer[i]]
    /\ UNCHANGED <<chans, producer, consumer, emitted, received, returned, crashed>>

\* The cursor of emit (lines 233 and 236): the token is cut from the read
\* mark to the position and the read mark moves up.
ScanEmit(i) ==
    /\ 0 <= lexer[i].start
    /\ lexer[i].start <= lexer[i].pos
    /\ scanned(i, "emit", {}, ignore(lexer[i]), 0, FALSE)

\* The colon of lexAnything (lines 100-102): the rune read is a colon and
\* the read mark is moved over it.
ScanColon(i) ==
    LET n == next(lexer[i])
    IN  /\ lexer[i].pos >= 0
        /\ n.r = 58
        /\ scanned(i, "colon", {}, [n.l EXCEPT !.start = @ + 1], n.r, FALSE)

\* A slice of the input with a negative position (line 190) or with the
\* read mark beyond the position (line 233) panics.
ScanPanic(i) ==
    /\ at(i, "scan")
    /\ lexer[i].pos < 0 \/ lexer[i].start > lexer[i].pos
    /\ producer' = [producer EXCEPT ![i] = [pc |-> "panic", after |-> ""]]
    /\ crashed' = TRUE
    /\ UNCHANGED <<lexer, chans, consumer, emitted, received, returned, call>>

InitCalls ==
    /\ \E input \in Strings(AlphabetCalls, MaxLenCalls) : lexer = <<NewBetterLexer(1, input)>>
    /\ chans = <<emptyChan>>
    /\ producer = <<[pc |-> "scan", after |-> ""]>>
    /\ consumer = <<newConsumer>>
    /\ emitted = <<<<>>>>
    /\ received = <<<<>>>>
    /\ returned = <<<<>>>>
    /\ crashed = FALSE
    /\ call = noCall

NextCalls ==
    \/ \E i \in Lexers : lexer[i].pos >= 0 /\ ScanNext(i)
    \/ \E i \in Lexers : ScanBackup(i)
    \/ \E i \in Lexers : ScanBackupLate(i)
    \/ \E i \in Lexers : ScanIgnore(i)
    \/ \E i \in Lexers : lexer[i].pos >= 0 /\ ScanPeek(i)
    \/ \E i \in Lexers : lexer[i].pos >= 0 /\ ScanAccept(i)
    \/ \E i \in Lexers : lexer[i].pos >= 0 /\ ScanAcceptRun(i)
    \/ \E i \in Lexers : ScanEmit(i)
    \/ \E i \in Lexers : ScanColon(i)
    \/ \E i \in Lexers : ScanPanic(i)

SpecCalls == InitCalls /\ [][NextCalls]_vars

\* Inputs that are numbers, and the steps such inputs take.
InitNum ==
    \E input \in Strings(AlphabetNum, MaxLen) \cup NumSamples : InitWith(<<input>>)

NextNum ==
    \/ \E i \in Lexers : LexAnything(i)
    \/ \E i \in Lexers : LexAnythingPeek(i)
    \/ \E i \in Lexers : LexAnythingEnd(i)
    \/ \E i \in Lexers : LexNumber(i)
    \/ \E i \in Lexers : EmitReturn(i)
    \/ \E i \in Lexers : RunClose(i)
    \/ \E i \in Lexers : CallLex(i)
    \/ \E i \in Lexers : LexRecv(i)
    \/ \E i \in Lexers : LexSwitch(i)
    \/ \E i \in Lexers : LexClosed(i)
    \/ \E i \in Lexers : ParseAccept(i)

SpecNum == InitNum /\ [][NextNum]_vars

\* Inputs made of the characters lexAnything emits a token for by itself.
InitOps == \E input \in Strings(AlphabetOps, MaxLenOps) : InitWith(<<input>>)

NextOps ==
    \/ \E i \in Lexers : LexAnything(i)
    \/ \E i \in Lexers : LexAnythingPeek(i)
    \/ \E i \in Lexers : LexAnythingEnd(i)
    \/ \E i \in Lexers : EmitReturn(i)
    \/ \E i \in Lexers : RunClose(i)
    \/ \E i \in Lexers : CallLex(i)
    \/ \E i \in Lexers : LexRecv(i)
    \/ \E i \in Lexers : LexSwitch(i)
    \/ \E i \in Lexers : LexClosed(i)
    \/ \E i \in Lexers : ParseError(i)
    \/ \E i \in Lexers : ParseAccept(i)

SpecOps == InitOps /\ [][NextOps]_vars

\* Runs to the end: the goroutine started by NewBetterLexer (line 80) and
\* the caller of Lex are both scheduled as long as they can take a step.
InitEnd == \E input \in Strings(AlphabetEnd, MaxLenEnd) : InitWith(<<input>>)

runStep ==
    \E i \in Lexers :
        \/ LexAnything(i)
        \/ LexAnythingPeek(i)
        \/ LexAnythingEnd(i)
        \/ EmitReturn(i)
        \/ RunClose(i)

parserStep ==
    \E i \in Lexers :
        \/ CallLex(i)
        \/ LexRecv(i)
        \/ LexSwitch(i)
        \/ LexClosed(i)
        \/ ParseError(i)
        \/ ParseAccept(i)

SpecEnd == InitEnd /\ [][NextOps]_vars /\ WF_vars(runStep) /\ WF_vars(parserStep)

\* The File built-in (package builtins): the method dirname called with
\* one string.

\* path without the slashes at its end.
RECURSIVE stripSlashes(_)
stripSlashes(path) ==
    IF path # <<>> /\ path[Len(path)] = 47
    THEN stripSlashes(SubSeq(path, 1, Len(path) - 1))
    ELSE path

\* The offset of the last slash of path, 0 when it has none.
lastSlash(path) ==
    IF \E k \in 1..Len(path) : path[k] = 47
    THEN CHOOSE k \in 1..Len(path) :
             path[k] = 47 /\ \A j \in (k + 1)..Len(path) : path[j] # 47
    ELSE 0

\* filepath.Base: the last element of the path; "." for the empty path
\* and "/" for a path of slashes only.
Base(path) ==
    IF path = <<>> THEN <<46>>
    ELSE LET p == stripSlashes(path)
             last == SubSeq(p, lastSlash(p) + 1, Len(p))
         IN  IF last = <<>> THEN <<47>> ELSE last

\* The method dirname of NewFileClass: the string of its first argument
\* goes through filepath.Base.
dirname(args) == Base(args[1])

InitFile ==
    /\ \E path \in Strings(AlphabetPath, MaxLenPath) :
           call = [op |-> "", args |-> <<path>>, result |-> <<>>]
    /\ lexer = <<NewBetterLexer(1, <<>>)>>
    /\ chans = <<emptyChan>>
    /\ producer = <<[pc |-> "", after |-> ""]>>
    /\ consumer = <<newConsumer>>
    /\ emitted = <<<<>>>>
    /\ received = <<<<>>>>
    /\ returned = <<<<>>>>
    /\ crashed = FALSE

\* File.dirname(path) is called and returns.
Dirname ==
    /\ call.op = ""
    /\ call' = [call EXCEPT !.op = "dirname", !.result = dirname(call.args)]
    /\ UNCHANGED <<lexer, chans, producer, consumer, emitted, received, returned, crashed>>

NextFile == Dirname

SpecFile == InitFile /\ [][NextFile]_vars

\* The if statement is parsed by the generated parser from the tokens of
\* the package's other lexer (NewLexer); neither is among the sources.  The
\* reduction is modelled from section 4.3 of the specification and from the
\* nodes the tests expect (parser_test.go, "if else blocks"): the parser
\* keeps the clauses read so far on its value stack and builds the node at
\* `end`.

\* most elsif clauses of one if
MaxElsif == 2

Boolean(v) == [node |-> "Boolean", Value |-> v]

\* The conditions and the bodies of the clauses.
Conditions == {Boolean(FALSE), Boolean(TRUE), [node |-> "BareReference", Name |-> <<97>>]}

Bodies == {<<[node |-> "SimpleString", Value |-> <<97>>]>>,
           <<[node |-> "SimpleString", Value |-> <<98>>]>>}

clause(kw, cond, body) == [node |-> "clause", kw |-> kw, Condition |-> cond, Body |-> body]

\* The if-node of one alternative; a nil Else is the empty list.
alternative(cond, body) ==
    [node |-> "IfBlock", Condition |-> cond, Body |-> body, Else |-> <<>>]

\* A reduction that hangs each alternative in the Else of the one before.
RECURSIVE IfBlockNested(_)
IfBlockNested(clauses) ==
    [node |-> "IfBlock",
     Condition |-> IF clauses[1].kw = "else" THEN Boolean(TRUE) ELSE clauses[1].Condition,
     Body |-> clauses[1].Body,
     Else |-> IF Len(clauses) = 1 THEN <<>> ELSE <<IfBlockNested(Tail(clauses))>>]

\* The node of a whole if: the alternatives after the first go, in order,
\* into its Else list, an else as an alternative guarded by true.
IfBlock(clauses) ==
    [node |-> "IfBlock",
     Condition |-> clauses[1].Condition,
     Body |-> clauses[1].Body,
     Else |-> [k \in 1..(Len(clauses) - 1) |->
                  IF clauses[k + 1].kw = "else"
                  THEN alternative(Boolean(TRUE), clauses[k + 1].Body)
                  ELSE alternative(clauses[k + 1].Condition, clauses[k + 1].Body)]]

\* The parser has read clauses of an if and not its end.
inIf(i) ==
    /\ consumer[i].lvals # <<>>
    /\ consumer[i].lvals[Len(consumer[i].lvals)].node = "clause"

lastKw(i) == consumer[i].lvals[Len(consumer[i].lvals)].kw

shift(i, code, c) ==
    /\ consumer' = [consumer EXCEPT ![i].lvals = Append(@, c)]
    /\ returned' = [returned EXCEPT ![i] = Append(@, code)]
    /\ UNCHANGED <<lexer, chans, producer, emitted, received, crashed, call>>

\* `if` condition, body.
ParseIf(i) ==
    /\ consumer[i].pc = "parse"
    /\ consumer[i].lvals = <<>>
    /\ \E cond \in Conditions, body \in Bodies : shift(i, "IF", clause("if", cond, body))

\* `elsif` condition, body.
ParseElsif(i) ==
    /\ consumer[i].pc = "parse"
    /\ inIf(i)
    /\ lastKw(i) # "else"
    /\ Len(consumer[i].lvals) <= MaxElsif
    /\ \E cond \in Conditions, body \in Bodies : shift(i, "ELSIF", clause("elsif", cond, body))

\* `else` body.
ParseElse(i) ==
    /\ consumer[i].pc = "parse"
    /\ inIf(i)
    /\ lastKw(i) # "else"
    /\ \E body \in Bodies : shift(i, "ELSE", clause("else", Boolean(TRUE), body))

\* `end`: the clauses are reduced to one node.
ParseEnd(i) ==
    /\ consumer[i].pc = "parse"
    /\ inIf(i)
    /\ consumer' = [consumer EXCEPT ![i].lvals = <<IfBlock(@)>>]
    /\ returned' = [returned EXCEPT ![i] = Append(@, "END")]
    /\ UNCHANGED <<lexer, chans, producer, emitted, received, crashed, call>>

InitIf == InitWith(<<<<>>>>)

NextIf ==
    \/ \E i \in Lexers : ParseIf(i)
    \/ \E i \in Lexers : ParseElsif(i)
    \/ \E i \in Lexers : ParseElse(i)
    \/ \E i \in Lexers : ParseEnd(i)

SpecIf == InitIf /\ [][NextIf]_vars

----------------------------------------------------------------------------
\* Properties.

EOFToken == [typ |-> "tokenTypeEOF", value |-> <<>>]

IsTerminal(tok) == tok.typ \in {"tokenTypeEOF", "tokenTypeError"}

InFlight(i) == Len(emitted[i]) - Len(received[i])

\* The parse has come to its own end: the parser returned, Lex panicked, or
\* the analyzer panicked.
Ended(i) == consumer[i].pc \in {"done", "panic"} \/ producer[i].pc = "panic"

TokenCodes(i) == SelectSeq(returned[i], LAMBDA c : c # LexZero)

\* C1: the tokens Lex has received are the tokens the analyzer emitted, in
\* the same order, none lost, duplicated or reordered, and all of them once
\* the analyzer is done; every Lex call that returned a token code consumed
\* exactly one token, the k-th such call the k-th token.
LexDeliversInOrder ==
    \A i \in Lexers :
        /\ IsPrefix(received[i], emitted[i])
        /\ producer[i].pc = "done" => received[i] = emitted[i]
        /\ Len(TokenCodes(i)) =
               Len(received[i]) - (IF consumer[i].pc \in {"switch", "panic"} THEN 1 ELSE 0)
        /\ \A k \in 1..Len(TokenCodes(i)) :
               TokenCodes(i)[k] = lexSwitch(received[i][k]).code

\* A whole stream of at least three tokens has been delivered and returned.
LexDeliversInOrderWitness ==
    \E i \in Lexers :
        /\ producer[i].pc = "done"
        /\ consumer[i].pc = "done"
        /\ Len(received[i]) >= 3
        /\ Len(TokenCodes(i)) = Len(received[i])

\* C2: at most one token is in flight: tokens emitted minus tokens received
\* is 0 or 1, and while a token is in flight the analyzer is parked in its
\* emit with the read mark still at the start of that token.
OneTokenInFlight ==
    \A i \in Lexers :
        /\ InFlight(i) \in {0, 1}
        /\ Len(chans[lexer[i].tokens].buf) = InFlight(i)
        /\ InFlight(i) = 1 =>
               /\ producer[i].pc = "send"
               /\ emitted[i][Len(emitted[i])].value =
                      Slice(lexer[i].input, lexer[i].start, lexer[i].pos)

\* Token k+1 is in flight, token k has been received.
OneTokenInFlightWitness ==
    \E i \in Lexers : InFlight(i) = 1 /\ Len(received[i]) >= 1

\* C3: the analyzer's stream holds at most one terminal token (end marker
\* or error token), nothing is emitted after it, and a finished analyzer
\* has emitted one.
OneTerminalToken ==
    \A i \in Lexers :
        /\ \A k \in 1..Len(emitted[i]) :
               IsTerminal(emitted[i][k]) => k = Len(emitted[i])
        /\ producer[i].pc \in {"nil", "done"} =>
               emitted[i] # <<>> /\ IsTerminal(emitted[i][Len(emitted[i])])

\* The analyzer's run on the input comes to a rune the dispatch state has
\* no case for.
DispatchesUnknownRune(input) == TokenStream(input).end = "panic"

\* C4: a rune the dispatch state has no case for does not crash the
\* analyzer, and a parse of such an input that ends, ends as a failure with
\* an error value.
UnknownRuneIsReported ==
    \A i \in Lexers :
        /\ producer[i].pc # "panic"
        /\ DispatchesUnknownRune(lexer[i].input) /\ consumer[i].pc = "done" =>
               lexer[i].LastError # nil /\ consumer[i].result = "failure"

\* C5: a parse whose Lex has received an error token does not crash, and
\* when it ends it has failed with LastError set and no statements.
ErrorTokenFailsParse ==
    \A i \in Lexers :
        (\E k \in 1..Len(received[i]) : received[i][k].typ = "tokenTypeError") =>
            /\ consumer[i].pc # "panic"
            /\ consumer[i].pc = "done" =>
                   /\ consumer[i].result = "failure"
                   /\ lexer[i].LastError # nil
                   /\ Statements(i) = <<>>

\* The multi-character operators: == === != <= >= <=> && || << >> += -= *=
\* /= ||= =~ !~
MultiCharOperators ==
    {<<61, 61>>, <<61, 61, 61>>, <<33, 61>>, <<60, 61>>, <<62, 61>>,
     <<60, 61, 62>>, <<38, 38>>, <<124, 124>>, <<60, 60>>, <<62, 62>>,
     <<43, 61>>, <<45, 61>>, <<42, 61>>, <<47, 61>>, <<124, 124, 61>>,
     <<61, 126>>, <<33, 126>>}

\* The longest multi-character operator the input starts with, or <<>>.
LongestOperator(input) ==
    LET ops == {op \in MultiCharOperators : IsPrefix(op, input)}
    IN  IF ops = {} THEN <<>>
        ELSE CHOOSE op \in ops : \A o \in ops : Len(o) <= Len(op)

\* C6: an input that starts with a multi-character operator yields, as its
\* first token, one token covering the longest such operator.
OperatorsLexGreedy ==
    \A i \in Lexers :
        LongestOperator(lexer[i].input) # <<>> /\ emitted[i] # <<>> =>
            emitted[i][1].value = LongestOperator(lexer[i].input)

\* C7: two parses of the same input deliver the same tokens: at any time
\* one has received a prefix of what the other has, and when both have
\* ended they have received the same tokens and have the same result,
\* error value and statements.
Deterministic ==
    \A i \in Lexers : \A j \in Lexers :
        lexer[i].input = lexer[j].input =>
            /\ IsPrefix(received[i], received[j]) \/ IsPrefix(received[j], received[i])
            /\ Ended(i) /\ Ended(j) =>
                   /\ received[i] = received[j]
                   /\ TokenCodes(i) = TokenCodes(j)
                   /\ consumer[i].result = consumer[j].result
                   /\ lexer[i].LastError = lexer[j].LastError
                   /\ Statements(i) = Statements(j)

\* Two parses of the same input have both ended, with tokens delivered.
DeterministicWitness ==
    \E i \in Lexers : \E j \in Lexers :
        /\ i # j
        /\ lexer[i].input = lexer[j].input
        /\ consumer[i].pc = "done" /\ consumer[j].pc = "done"
        /\ Len(received[i]) >= 3

\* C8: two parses have each their own channel, and each delivers what it
\* delivers when run by itself: at any time a prefix of it, and all of it
\* when the parse has ended, whatever the other parse does.
ParsesIndependent ==
    /\ \A i \in Lexers : \A j \in Lexers :
           i # j => lexer[i].tokens # lexer[j].tokens
    /\ \A i \in Lexers :
           /\ IsPrefix(received[i], Delivered(lexer[i].input))
           /\ Ended(i) => received[i] = Delivered(lexer[i].input)

\* Two parses of different inputs have both ended, with tokens delivered.
ParsesIndependentWitness ==
    \E i \in Lexers : \E j \in Lexers :
        /\ lexer[i].input # lexer[j].input
        /\ consumer[i].pc = "done" /\ consumer[j].pc = "done"
        /\ Len(received[i]) >= 2 /\ Len(received[j]) >= 2

Cursor(l) == <<l.input, l.start, l.pos, l.width>>

\* C9: a step of the consumer side (Lex, Error, the parser) leaves the
\* cursor fields as they are, and a step of the analyzer's goroutine leaves
\* LastError and the consumer's own state as they are: the channel is all
\* the two sides share.
OnlyChannelShared ==
    [][\A i \in Lexers :
          /\ consumer'[i] # consumer[i] => Cursor(lexer'[i]) = Cursor(lexer[i])
          /\ producer'[i] # producer[i] =>
                 /\ lexer'[i].LastError = lexer[i].LastError
                 /\ consumer'[i] = consumer[i]
                 /\ returned'[i] = returned[i]]_vars

\* Both sides have written: the analyzer its cursor, the consumer LastError.
OnlyChannelSharedWitness ==
    \E i \in Lexers :
        /\ lexer[i].LastError # nil
        /\ lexer[i].start > 0
        /\ Len(returned[i]) >= 2

\* C10: the empty input yields the end marker alone and no error token;
\* its parse succeeds with no statements and LastError unset.
EmptyInputParses ==
    \A i \in Lexers :
        lexer[i].input = <<>> =>
            /\ IsPrefix(emitted[i], <<EOFToken>>)
            /\ lexer[i].LastError = nil
            /\ ~crashed
            /\ consumer[i].result # "failure"
            /\ producer[i].pc = "done" => emitted[i] = <<EOFToken>>
            /\ consumer[i].pc = "done" =>
                   /\ received[i] = <<EOFToken>>
                   /\ consumer[i].result = "success"
                   /\ Statements(i) = <<>>

\* The parse of the empty input has ended and the analyzer is done.
EmptyInputParsesWitness ==
    \E i \in Lexers :
        /\ lexer[i].input = <<>>
        /\ consumer[i].pc = "done"
        /\ producer[i].pc = "done"

\* A number token as the analyzer cuts it: a run of digits, or digits, a
\* point and digits.
IsDigitRun(tok) == tok.typ = "tokenTypeInteger" /\ AllDigits(tok.value)

IsFloatText(tok) ==
    /\ tok.typ = "tokenTypeFloat"
    /\ \E k \in 2..(Len(tok.value) - 1) :
           /\ tok.value[k] = 46
           /\ AllDigits(SubSeq(tok.value, 1, k - 1))
           /\ AllDigits(SubSeq(tok.value, k + 1, Len(tok.value)))

\* C11: Lex never panics on a number token, and the node it builds for a
\* run of digits is an integer literal of the run's base-10 value, for
\* digits, a point and digits a float literal of that value.
NumberTokenYieldsNode ==
    \A i \in Lexers :
        LET tok == consumer[i].token
        IN  /\ consumer[i].pc = "panic" => ~IsDigitRun(tok) /\ ~IsFloatText(tok)
            /\ consumer[i].pc = "switch" /\ ~lexSwitch(tok).panics =>
                   /\ IsDigitRun(tok) =>
                          lexSwitch(tok).node =
                              [node |-> "ConstantInt", Value |-> digitsValue(tok.value)]
                   /\ IsFloatText(tok) =>
                          lexSwitch(tok).node.node = "ConstantFloat"

\* The runes of a byte sequence, as successive next calls decode them.
RECURSIVE RunesOf(_)
RunesOf(s) ==
    IF s = <<>> THEN {}
    ELSE LET d == DecodeRuneInString(s)
         IN  {d.r} \cup RunesOf(SubSeq(s, d.size + 1, Len(s)))

\* The bytes of the input from the 0-based offset a on.
From(l, a) == SubSeq(l.input, a + 1, Len(l.input))

\* C12: after next and then backup the read position is the one from
\* before the next, whether the next consumed a rune or met the end.
BackupUndoesNext ==
    \A i \in Lexers : call.op = "backup" => lexer[i].pos = call.from.pos

\* next met the end of a non-empty input, and backup has been called.
BackupUndoesNextWitness ==
    \E i \in Lexers :
        /\ call.op = "backup"
        /\ call.from.pos = Len(lexer[i].input)
        /\ call.from.width = 2

\* C13: next returns the sentinel exactly when the position is at the end
\* of the input, and then leaves the position; otherwise it returns the
\* rune at the position and moves the position on by the rune's width.
NextReturnsRuneOrSentinel ==
    \A i \in Lexers :
        call.op = "next" =>
            LET before == call.from
                d == DecodeRuneInString(From(before, before.pos))
            IN  /\ call.r = eof <=> before.pos >= Len(before.input)
                /\ before.pos >= Len(before.input) => lexer[i].pos = before.pos
                /\ before.pos < Len(before.input) =>
                       call.r = d.r /\ lexer[i].pos = before.pos + d.size

\* C14: peek returns the rune the next call of next returns and leaves the
\* position and the read mark where they were.
PeekDoesNotConsume ==
    \A i \in Lexers :
        call.op = "peek" =>
            /\ lexer[i].pos = call.from.pos
            /\ lexer[i].start = call.from.start
            /\ call.r = next(lexer[i]).r

\* peek has looked at a two-byte rune with the read mark off the start.
PeekDoesNotConsumeWitness ==
    \E i \in Lexers :
        call.op = "peek" /\ call.r = 233 /\ lexer[i].start > 0

\* C15: emit sends one token, its text the input from the read mark to
\* the position, and when it returns the read mark is at the position,
\* which has not moved.
EmitCutsToken ==
    [][\A i \in Lexers :
          /\ producer[i].pc # "send" /\ producer'[i].pc = "send" =>
                 LET l == lexer'[i]
                 IN  /\ Len(emitted'[i]) = Len(emitted[i]) + 1
                     /\ emitted'[i][Len(emitted'[i])].value =
                            SubSeq(l.input, l.start + 1, l.pos)
                     /\ chans'[l.tokens].buf =
                            Append(chans[l.tokens].buf,
                                   [tok |-> emitted'[i][Len(emitted'[i])], by |-> i])
          /\ producer[i].pc = "send" /\ producer'[i].pc # "send" =>
                 /\ lexer'[i].start = lexer[i].pos
                 /\ lexer'[i].pos = lexer[i].pos
                 /\ emitted'[i] = emitted[i]]_vars

\* emit has returned from cutting a token of two bytes or more that does
\* not start the input.
EmitCutsTokenWitness ==
    \E i \in Lexers :
        /\ Len(emitted[i]) >= 2
        /\ Len(emitted[i][2].value) >= 2
        /\ producer[i].pc # "send"
        /\ lexer[i].start = Len(lexer[i].input)

\* C16: the runes acceptRun consumes are all of the class and the rune
\* after them is not (or the input ends there); accept consumes one rune
\* and returns true when the rune is of the class, and otherwise consumes
\* nothing and returns false.
AcceptsOfTheClass ==
    \A i \in Lexers :
        LET before == call.from
            l == lexer[i]
            d == DecodeRuneInString(From(before, before.pos))
            one == before.pos < Len(before.input) /\ d.r \in call.valid
        IN  /\ call.op = "acceptRun" =>
                   /\ l.pos >= before.pos
                   /\ RunesOf(Slice(l.input, before.pos, l.pos)) \subseteq call.valid
                   /\ l.pos = Len(l.input) \/ next(l).r \notin call.valid
            /\ call.op = "accept" =>
                   /\ call.ok = one
                   /\ l.pos = IF one THEN before.pos + d.size ELSE before.pos

\* acceptRun has consumed two runes and stopped before a third.
AcceptsOfTheClassWitness ==
    \E i \in Lexers :
        /\ call.op = "acceptRun"
        /\ lexer[i].pos >= call.from.pos + 2
        /\ lexer[i].pos < Len(lexer[i].input)

\* C17: when lexAnything hands over to lexSymbol the read mark stands just
\* after the colon, so no symbol token, and no symbol node Lex builds from
\* one, has the colon in its text.
SymbolExcludesColon ==
    \A i \in Lexers :
        /\ producer[i].pc = "lexSymbol" =>
               /\ lexer[i].start = lexer[i].pos
               /\ lexer[i].input[lexer[i].pos] = 58
        /\ \A k \in 1..Len(emitted[i]) :
               emitted[i][k].typ = "tokenTypeSymbol" =>
                   \A n \in 1..Len(emitted[i][k].value) : emitted[i][k].value[n] # 58
        /\ \A k \in 1..Len(consumer[i].lvals) :
               consumer[i].lvals[k].node = "Symbol" =>
                   \A n \in 1..Len(consumer[i].lvals[k].Name) :
                       consumer[i].lvals[k].Name[n] # 58

\* C18: once the caller has given a parse up, nothing is received from it
\* any more, and its goroutine, once parked in emit on a token not yet
\* received, stays there: the
\* cursor, the tokens sent and the place of the goroutine do not change.
\* The other parse still receives what it receives when run by itself.
AbandonParksProducer ==
    /\ []ParsesIndependent
    /\ [][\A i \in Lexers :
            consumer[i].pc = "abandoned" =>
                /\ consumer'[i] = consumer[i]
                /\ received'[i] = received[i]
                /\ returned'[i] = returned[i]
                /\ producer[i].pc = "send" /\ Len(emitted[i]) > Len(received[i]) =>
                       /\ producer'[i] = producer[i]
                       /\ lexer'[i] = lexer[i]
                       /\ emitted'[i] = emitted[i]]_vars

\* A parse given up after its first token, its goroutine parked on the
\* second, while the other parse has run to its end.
AbandonParksProducerWitness ==
    \E i, j \in Lexers :
        /\ i # j
        /\ consumer[i].pc = "abandoned"
        /\ producer[i].pc = "send"
        /\ Len(received[i]) = 1
        /\ Len(emitted[i]) = 2
        /\ consumer[j].pc = "done"
        /\ producer[j].pc = "done"

\* A class is declared with a name in lower case.
DeclaresLowerCaseClass(codes) ==
    \E k \in 1..(Len(codes) - 2) :
        codes[k] = "CLASS" /\ codes[k + 1] = "WHITESPACE" /\ codes[k + 2] = "REF"

\* A closing parenthesis comes with none open.
ClosesUnopened(codes) ==
    \E k \in 1..Len(codes) :
        /\ codes[k] = "RPAREN"
        /\ \A n \in 1..(k - 1) : codes[n] # "LPAREN"

\* C19: a parse that has met a structural violation does not succeed; when
\* it has returned, it has failed, LastError is set and the statement list
\* is empty, whatever nodes were built before the violation.
ParserFailureIsTotal ==
    \A i \in Lexers :
        DeclaresLowerCaseClass(returned[i]) \/ ClosesUnopened(returned[i]) =>
            /\ consumer[i].result # "success"
            /\ consumer[i].pc = "done" =>
                   /\ consumer[i].result = "failure"
                   /\ lexer[i].LastError # nil
                   /\ Statements(i) = <<>>

\* A parse has failed on a class name in lower case after a node was built.
ParserFailureIsTotalWitness ==
    \E i \in Lexers :
        /\ DeclaresLowerCaseClass(returned[i])
        /\ consumer[i].pc = "done"
        /\ consumer[i].lvals # <<>>

\* The line of the input that starts at the offset a.
LineAt(input, a) ==
    LET ends == {e \in a..Len(input) :
                    /\ e = Len(input) \/ input[e + 1] = 10
                    /\ \A k \in (a + 1)..e : input[k] # 10}
    IN  SubSeq(input, a + 1, CHOOSE e \in ends : TRUE)

\* The offsets from a to b at which a line starts, a being one.
LineStarts(input, a, b) == {a} \cup {k \in (a + 1)..b : input[k] = 10}

\* C20: the literal of a heredoc without dash holds the text from the line
\* after the opener up to the first line that is the identifier alone from
\* column 0; a line with the identifier indented is part of the literal.
HeredocEndsAtColumnZero ==
    \A i \in Lexers :
        LET input == lexer[i].input
            id == <<65>>
            b == 4
        IN  /\ SubSeq(input, 1, b) = <<60, 60, 65, 10>>
            /\ emitted[i] # <<>>
            /\ emitted[i][1].typ = "tokenTypeString"
            => LET v == emitted[i][1].value
                   t == IF LineAt(input, b) = id THEN b ELSE b + Len(v) + 1
               IN  /\ SubSeq(input, b + 1, b + Len(v)) = v
                   /\ t <= Len(input)
                   /\ LineAt(input, t) = id
                   /\ t > b => input[t] = 10
                   /\ \A a \in LineStarts(input, b, t - 1) :
                          a < t => LineAt(input, a) # id

\* The literal of a heredoc without dash has been received with an indented
\* identifier as its last line.
HeredocEndsAtColumnZeroWitness ==
    \E i \in Lexers :
        /\ SubSeq(lexer[i].input, 1, 4) = <<60, 60, 65, 10>>
        /\ received[i] # <<>>
        /\ received[i][1] = [typ |-> "tokenTypeString", value |-> <<32, 65>>]

\* The byte of s at k is written after a backslash.
Escaped(s, k) == k > 1 /\ s[k - 1] = 92 /\ ~(k > 2 /\ s[k - 2] = 92)

\* The nesting after the text s of a double-quoted string, innermost last:
\* "s" in a string, "i" in an interpolation region; empty once the string
\* has been closed.
RECURSIVE NestingAfter(_)
NestingAfter(s) ==
    IF s = <<>> THEN <<"s">>
    ELSE LET st == NestingAfter(SubSeq(s, 1, Len(s) - 1))
             c == s[Len(s)]
             k == Len(s)
         IN  IF st = <<>> THEN st
             ELSE IF st[Len(st)] = "s" THEN
                 IF Escaped(s, k) THEN st
                 ELSE IF c = 34 THEN SubSeq(st, 1, Len(st) - 1)
                 ELSE IF c = 123 /\ k > 1 /\ s[k - 1] = 35 /\ ~Escaped(s, k - 1)
                      THEN Append(st, "i")
                 ELSE st
             ELSE
                 IF c = 34 THEN Append(st, "s")
                 ELSE IF c = 123 THEN Append(st, "i")
                 ELSE IF c = 125 THEN SubSeq(st, 1, Len(st) - 1)
                 ELSE st

\* C21: the token of a double-quoted string is the raw text between the
\* opening quote and the first double quote outside every interpolation
\* region: it is followed by a quote, and no quote within it stands at
\* nesting zero.
DoubleQuoteEndsAtDepthZero ==
    \A i \in Lexers :
        LET input == lexer[i].input
        IN  /\ input[1] = 34
            /\ emitted[i] # <<>>
            /\ emitted[i][1].typ = "tokenTypeString"
            => LET v == emitted[i][1].value
               IN  /\ SubSeq(input, 2, Len(v) + 1) = v
                   /\ Len(input) >= Len(v) + 2
                   /\ input[Len(v) + 2] = 34
                   /\ NestingAfter(v) = <<"s">>
                   /\ \A k \in 1..Len(v) : NestingAfter(SubSeq(v, 1, k)) # <<>>

\* A string with a string with an interpolation in an interpolation of its
\* own has been received.
DoubleQuoteEndsAtDepthZeroWitness ==
    \E i \in Lexers :
        /\ received[i] # <<>>
        /\ received[i][1] =
               [typ |-> "tokenTypeString",
                value |-> <<97, 35, 123, 34, 35, 123, 97, 125, 34, 125, 97>>]

Kinds(toks) == [k \in 1..Len(toks) |-> toks[k].typ]

\* The offset of the first newline of t, or its length when it has none.
RECURSIVE ToNewline(_)
ToNewline(t) == IF t = <<>> \/ t[1] = 10 THEN 0 ELSE 1 + ToNewline(Tail(t))

\* The text of a continuation line without the comment lines it starts
\* with; the blanks before them are kept.
RECURSIVE DropCommentLines(_)
DropCommentLines(t) ==
    IF t # <<>> /\ t[1] \in {32, 9} THEN <<t[1]>> \o DropCommentLines(Tail(t))
    ELSE IF t # <<>> /\ t[1] = 35
         THEN DropCommentLines(SubSeq(t, ToNewline(t) + 2, Len(t)))
    ELSE t

\* The input without its escaped newlines and without the comments of the
\* continuation lines; a comment elsewhere is copied as it is.
RECURSIVE Unescape(_)
Unescape(s) ==
    IF s = <<>> THEN s
    ELSE IF s[1] = 35
         THEN SubSeq(s, 1, ToNewline(s)) \o Unescape(SubSeq(s, ToNewline(s) + 1, Len(s)))
    ELSE IF Len(s) >= 2 /\ s[1] = 92 /\ s[2] = 10
         THEN Unescape(DropCommentLines(SubSeq(s, 3, Len(s))))
    ELSE <<s[1]>> \o Unescape(Tail(s))

\* Delimiters opened less delimiters closed before the k-th code.
Balance(codes, k) ==
    Cardinality({j \in 1..(k - 1) : codes[j] \in {"LPAREN", "LBRACKET", "LBRACE"}})
        - Cardinality({j \in 1..(k - 1) : codes[j] \in {"RPAREN", "RBRACKET", "RBRACE"}})

TerminatorAt(codes, k) ==
    codes[k] \in {"NEWLINE", "EOF", LexZero} /\ Balance(codes, k) = 0

\* The statements ended within the codes: the terminators that come after
\* a code of a statement with no terminator between.
StatementsEnded(codes) ==
    Cardinality({k \in 1..Len(codes) :
        /\ TerminatorAt(codes, k)
        /\ \E j \in 1..(k - 1) :
               /\ codes[j] \notin {"WHITESPACE", "NEWLINE", "EOF", LexZero}
               /\ \A m \in (j + 1)..(k - 1) : ~TerminatorAt(codes, m)})

\* C22: the parser ends a statement at a newline exactly when no delimiter
\* is open, before, within and after delimiters; and the analyzer emits for
\* an input the kinds of tokens it emits for the input without its escaped
\* newlines and the comments on their continuation lines.
NewlineEndsStatement ==
    \A i \in Lexers :
        LET run == TokenStream(Unescape(lexer[i].input))
            plain == Kinds(run.tokens)
        IN  /\ consumer[i].pc # "error" /\ consumer[i].result # "failure" =>
                   consumer[i].stmts = StatementsEnded(returned[i])
            /\ IsPrefix(Kinds(emitted[i]), plain)
            /\ producer[i].pc = "done" => Kinds(emitted[i]) = plain /\ run.end = "nil"
            /\ producer[i].pc = "panic" => Kinds(emitted[i]) = plain /\ run.end = "panic"

\* A parse has ended with two statements on three newlines, the first of
\* them between parentheses.
NewlineEndsStatementWitness ==
    \E i \in Lexers :
        /\ consumer[i].pc = "done"
        /\ consumer[i].stmts = 2
        /\ Len(returned[i]) >= 5
        /\ SubSeq(returned[i], 1, 5) = <<"LPAREN", "NODE", "NEWLINE", "RPAREN", "NEWLINE">>

\* The length of a single-quoted string after its opening quote, up to and
\* with the closing quote.
RECURSIVE QuotedLen(_)
QuotedLen(t) ==
    IF t = <<>> THEN 0
    ELSE IF t[1] = 39 THEN 1
    ELSE IF Len(t) >= 2 /\ t[1] = 92 /\ t[2] = 39 THEN 2 + QuotedLen(SubSeq(t, 3, Len(t)))
    ELSE 1 + QuotedLen(Tail(t))

\* The input with every comment removed, from its # up to the newline; a #
\* within a single-quoted string is text of the string.
RECURSIVE StripComments(_)
StripComments(s) ==
    IF s = <<>> THEN s
    ELSE IF s[1] = 35 THEN StripComments(SubSeq(s, ToNewline(s) + 1, Len(s)))
    ELSE IF s[1] = 39
         THEN LET n == 1 + QuotedLen(Tail(s))
              IN  SubSeq(s, 1, n) \o StripComments(SubSeq(s, n + 1, Len(s)))
    ELSE <<s[1]>> \o StripComments(Tail(s))

\* The tokens with every run of adjacent newline tokens joined into one: a
\* whole-line comment splits a run of newlines in two.
RECURSIVE JoinNewlines(_)
JoinNewlines(toks) ==
    IF Len(toks) < 2 THEN toks
    ELSE IF toks[1].typ = "tokenTypeNewline" /\ toks[2].typ = "tokenTypeNewline"
         THEN JoinNewlines(<<[typ |-> "tokenTypeNewline", value |-> toks[1].value \o toks[2].value]>>
                           \o SubSeq(toks, 3, Len(toks)))
    ELSE <<toks[1]>> \o JoinNewlines(Tail(toks))

\* C23: a comment yields no token: the tokens emitted for an input are, up
\* to the splitting of newline runs, the tokens emitted for the input with
\* its comments removed, and the run ends the same way.
CommentsYieldNoToken ==
    \A i \in Lexers :
        LET plain == TokenStream(StripComments(lexer[i].input))
        IN  /\ producer[i].pc = "done" =>
                   JoinNewlines(emitted[i]) = JoinNewlines(plain.tokens) /\ plain.end = "nil"
            /\ producer[i].pc = "panic" =>
                   JoinNewlines(emitted[i]) = JoinNewlines(plain.tokens) /\ plain.end = "panic"

\* The offsets of the quotes of s, after its opening quote, that no
\* backslash precedes.
ClosingQuotes(s) ==
    {k \in 2..Len(s) : s[k] = 39 /\ ~(k > 2 /\ s[k - 1] = 92)}

Least(S) == CHOOSE k \in S : \A j \in S : k <= j

\* C24: the token of a single-quoted string is the input between the
\* opening quote and the first quote that no backslash precedes, verbatim,
\* backslashes kept, and the string node's value is that text; a literal
\* with no such quote yields an Error token.
SingleQuoteTextVerbatim ==
    \A i \in Lexers :
        LET input == lexer[i].input
            closers == ClosingQuotes(input)
        IN  /\ input[1] = 39
            /\ emitted[i] # <<>>
            => /\ emitted[i][1] =
                      IF closers = {}
                      THEN [typ |-> "tokenTypeError", value |-> Tail(input)]
                      ELSE [typ |-> "tokenTypeString",
                            value |-> SubSeq(input, 2, Least(closers) - 1)]
               /\ closers # {} /\ consumer[i].lvals # <<>> =>
                      consumer[i].lvals[1] =
                          [node |-> "SimpleString",
                           Value |-> SubSeq(input, 2, Least(closers) - 1)]

\* Lex has returned the node of 'a\'a', its value a\'a.
SingleQuoteTextVerbatimWitness ==
    \E i \in Lexers :
        /\ IsPrefix(<<39, 97, 92, 39, 97, 39>>, lexer[i].input)
        /\ returned[i] = <<"NODE">>
        /\ consumer[i].lvals = <<[node |-> "SimpleString", Value |-> <<97, 92, 39, 97>>]>>

\* How many of the codes the parser has read are the code c.
Count(codes, c) == Cardinality({k \in 1..Len(codes) : codes[k] = c})

\* The parser has reduced an if to its node.
Reduced(i) == consumer[i].lvals # <<>> /\ consumer[i].lvals[1].node = "IfBlock"

\* C25 as stated: the Else list of every if-node holds one if-node for each
\* elsif and then a last alternative guarded by the constant true.
IfChainEndsUnconditional ==
    \A i \in Lexers :
        Reduced(i) =>
            LET else == consumer[i].lvals[1].Else
                n == Count(returned[i], "ELSIF")
            IN  /\ Len(else) = n + 1
                /\ else[n + 1].Condition = Boolean(TRUE)

\* C25, amended: the Else list holds, in source order, one if-node for each
\* elsif, then one guarded by the constant true exactly when an else is
\* written; each has the condition and body of its clause and no Else of
\* its own.  An if with neither elsif nor else has an empty Else list.
IfChainFlattens ==
    /\ [](\A i \in Lexers :
             Reduced(i) =>
                 Len(consumer[i].lvals[1].Else) =
                     Count(returned[i], "ELSIF") + Count(returned[i], "ELSE"))
    /\ [][\A i \in Lexers :
             inIf(i) /\ consumer'[i].lvals[1].node = "IfBlock" =>
                 LET cl == consumer[i].lvals
                     b == consumer'[i].lvals[1]
                 IN  /\ b.Condition = cl[1].Condition
                     /\ b.Body = cl[1].Body
                     /\ Len(b.Else) = Len(cl) - 1
                     /\ \A k \in 1..Len(b.Else) :
                            /\ b.Else[k].node = "IfBlock"
                            /\ b.Else[k].Body = cl[k + 1].Body
                            /\ b.Else[k].Else = <<>>
                            /\ b.Else[k].Condition =
                                   IF returned[i][k + 1] = "ELSE" THEN Boolean(TRUE)
                                   ELSE cl[k + 1].Condition]_vars

\* An if with two elsif clauses and an else has been reduced: three
\* alternatives, the last guarded by true.
IfChainFlattensWitness ==
    \E i \in Lexers :
        /\ Reduced(i)
        /\ returned[i] = <<"IF", "ELSIF", "ELSIF", "ELSE", "END">>
        /\ Len(consumer[i].lvals[1].Else) = 3
        /\ consumer[i].lvals[1].Else[2].Condition = Boolean(FALSE)
        /\ consumer[i].lvals[1].Else[3].Condition = Boolean(TRUE)

\* C26: a compound assignment operator is one token: the analyzer never
\* emits a token for + - or * and, next to it, a token for the = that
\* follows it in the input.
CompoundAssignmentIsOneToken ==
    \A i \in Lexers :
        \A k \in 1..(Len(emitted[i]) - 1) :
            ~ /\ emitted[i][k] \in {[typ |-> "tokenTypePlus", value |-> <<43>>],
                                    [typ |-> "tokenTypeMinus", value |-> <<45>>],
                                    [typ |-> "tokenTypeStar", value |-> <<42>>]}
              /\ emitted[i][k + 1] = [typ |-> "tokenTypeEqual", value |-> <<61>>]

\* The kind of the token of each single-character token.
KindOf(r) ==
    CASE r = 40 -> "tokenTypeLParen"
      [] r = 41 -> "tokenTypeRParen"
      [] r = 44 -> "tokenTypeComma"
      [] r = 60 -> "tokenTypeLessThan"
      [] r = 62 -> "tokenTypeGreaterThan"
      [] r = 61 -> "tokenTypeEqual"
      [] r = 33 -> "tokenTypeBang"
      [] r = 126 -> "tokenTypeTilde"
      [] r = 43 -> "tokenTypePlus"
      [] r = 45 -> "tokenTypeMinus"
      [] r = 42 -> "tokenTypeStar"
      [] r = 91 -> "tokenTypeLBracket"
      [] r = 93 -> "tokenTypeRBracket"
      [] r = 123 -> "tokenTypeLBrace"
      [] r = 125 -> "tokenTypeRBrace"
      [] r = 36 -> "tokenTypeDollarSign"
      [] r = 64 -> "tokenTypeAtSign"

\* One token for each character, then the end marker.
OneTokenEach(input) ==
    [k \in 1..Len(input) |-> [typ |-> KindOf(input[k]), value |-> <<input[k]>>]]
        \o <<EOFToken>>

\* C30: for an input of single-character tokens the analyzer emits one
\* token for each character, in order, of the character's kind and with
\* the character as its text, then one end marker and no Error token; the
\* tokens received are those, in that order.
OneTokenPerCharacter ==
    \A i \in Lexers :
        /\ IsPrefix(emitted[i], OneTokenEach(lexer[i].input))
        /\ IsPrefix(received[i], emitted[i])
        /\ producer[i].pc \in {"nil", "done"} => emitted[i] = OneTokenEach(lexer[i].input)
        /\ producer[i].pc # "panic"

\* The tokens of "(+" and the end marker have been received and the
\* analyzer has ended.
OneTokenPerCharacterWitness ==
    \E i \in Lexers :
        /\ producer[i].pc = "done"
        /\ received[i] = <<[typ |-> "tokenTypeLParen", value |-> <<40>>],
                           [typ |-> "tokenTypePlus", value |-> <<43>>],
                           EOFToken>>

tokensOf(i) == chans[lexer[i].tokens]

\* C28: the channel is closed once, by the goroutine that sends on it, and
\* only when every token it sent has been received; once the channel is
\* closed it stays closed, no token is sent and the goroutine takes no
\* further step (a second close or a send would panic).
ChannelClosedOnce ==
    /\ [](\A i \in Lexers :
             tokensOf(i).closed =>
                 /\ producer[i].pc = "done"
                 /\ tokensOf(i).buf = <<>>
                 /\ received[i] = emitted[i])
    /\ [][\A i \in Lexers :
             /\ tokensOf(i).closed =>
                    /\ chans'[lexer'[i].tokens].closed
                    /\ emitted'[i] = emitted[i]
                    /\ producer'[i] = producer[i]
             /\ ~tokensOf(i).closed /\ chans'[lexer'[i].tokens].closed =>
                    /\ producer[i].pc = "nil"
                    /\ producer'[i].pc = "done"]_vars

\* The channel has been closed after three tokens, all received, and Lex
\* has been called again.
ChannelClosedOnceWitness ==
    \E i \in Lexers :
        /\ tokensOf(i).closed
        /\ Len(received[i]) = 3
        /\ consumer[i].extra > 0

\* C27: when the parser does not reject the input, and so keeps calling
\* Lex, the goroutine comes to its end: the end marker is received and the
\* channel is closed.
RunTerminates ==
    [](consumer[1].pc # "error") =>
        <>(/\ producer[1].pc = "done"
           /\ tokensOf(1).closed
           /\ received[1] # <<>>
           /\ received[1][Len(received[1])] = EOFToken)

\* The goroutine has ended on an input of three characters: four tokens
\* were received and the channel is closed.
RunTerminatesWitness ==
    /\ producer[1].pc = "done"
    /\ tokensOf(1).closed
    /\ Len(lexer[1].input) = 3
    /\ Len(received[1]) = 4
    /\ consumer[1].result = "success"

\* C29: a call of Lex made after the end marker was returned returns 0,
\* and no token is received after the end marker.
LexAfterEndReturnsZero ==
    /\ (consumer[1].pc = "lex" /\ consumer[1].ended)
           ~> (/\ consumer[1].pc # "lex"
               /\ returned[1] # <<>>
               /\ returned[1][Len(returned[1])] = LexZero)
    /\ [](\A k \in 1..(Len(received[1]) - 1) : received[1][k] # EOFToken)

\* Lex has returned 0 on a call made after the end marker.
LexAfterEndReturnsZeroWitness ==
    /\ consumer[1].ended
    /\ consumer[1].extra > 0
    /\ returned[1] # <<>>
    /\ returned[1][Len(returned[1])] = LexZero
    /\ received[1][Len(received[1])] = EOFToken

\* The text of the tokens that are not Error tokens, end to end.
RECURSIVE EmittedText(_)
EmittedText(toks) ==
    IF toks = <<>> THEN <<>>
    ELSE (IF toks[1].typ = "tokenTypeError" THEN <<>> ELSE toks[1].value)
             \o EmittedText(Tail(toks))

HasError(toks) == \E k \in 1..Len(toks) : toks[k].typ = "tokenTypeError"

\* C31: lexAnything emits an Error token only with the read mark short of
\* the end of the input, and the token's text is the input from the read
\* mark to the position; when the tokens that are not Error tokens cover
\* the whole input there is no Error token.
ErrorOnlyWithPendingText ==
    /\ [](\A i \in Lexers :
             EmittedText(emitted[i]) = lexer[i].input => ~HasError(emitted[i]))
    /\ [][\A i \in Lexers :
             /\ Len(emitted'[i]) > Len(emitted[i])
             /\ emitted'[i][Len(emitted'[i])].typ = "tokenTypeError"
             => /\ producer[i].pc = "atEnd"
                /\ lexer[i].start # Len(lexer[i].input)
                /\ emitted'[i][Len(emitted'[i])].value =
                       Slice(lexer[i].input, lexer[i].start, lexer[i].pos)]_vars

\* The only byte of the input, a NUL, was pending at the end and is the
\* text of the Error token.
ErrorOnlyWithPendingTextWitness ==
    \E i \in Lexers :
        /\ lexer[i].input = <<0>>
        /\ emitted[i] # <<>>
        /\ emitted[i][1] = [typ |-> "tokenTypeError", value |-> <<0>>]

InRange(l) == 0 <= l.start /\ l.start <= l.pos /\ l.pos <= Len(l.input)

\* C32: in every state of the scanner reached by calls that keep to the
\* rule of backup, once for each call of next, 0 <= start <= pos <=
\* len(input).
CursorInRange == \A i \in Lexers : InRange(lexer[i])

\* C34: after next, peek (once or more) and backup, the position is the
\* one before that next.
PeekKeepsBackup ==
    [][\A i \in Lexers :
          call.since = "peek" /\ call'.op = "backup" => lexer'[i].pos = call.mark]_vars

\* C33: whenever lexAnything reads a rune to dispatch on, the read mark
\* stands at the position: no text read earlier is pending.
DispatchStartsAtMark ==
    \A i \in Lexers :
        producer[i].pc = "lexAnything" => lexer[i].start = lexer[i].pos

\* C36: LastError is unset from the creation of the lexer on and through
\* all the lexing; only the parser's call of Error sets it, to a message
\* that starts with "syntax error: " and goes on with the parser's own
\* message; a parse that succeeds ends with LastError unset.
LastErrorOnlyByError ==
    /\ [](\A i \in Lexers :
             /\ consumer[i].result = "success" => lexer[i].LastError = nil
             /\ consumer[i].result # "failure" => lexer[i].LastError = nil
             /\ lexer[i].LastError # nil =>
                    /\ Len(lexer[i].LastError) >= 2
                    /\ lexer[i].LastError[1] = "syntax error: "
                    /\ lexer[i].LastError[2] = "unexpected")
    /\ [][\A i \in Lexers :
             lexer'[i].LastError # lexer[i].LastError =>
                 /\ lexer[i].LastError = nil
                 /\ consumer[i].pc = "error"
                 /\ consumer'[i].result = "failure"
                 /\ producer'[i] = producer[i]]_vars

\* The parser has rejected the input after two tokens and has called Error.
LastErrorOnlyByErrorWitness ==
    \E i \in Lexers :
        /\ lexer[i].LastError = <<"syntax error: ", "unexpected", "\n">>
        /\ Len(received[i]) = 2
        /\ consumer[i].result = "failure"

\* The token kinds of the const block (lines 25-58).
TokenTypes ==
    {"tokenTypeError", "tokenTypeEOF", "tokenTypeInteger", "tokenTypeFloat",
     "tokenTypeString", "tokenTypeSymbol", "tokenTypeReference",
     "tokenTypeCapitalizedReference", "tokenTypeWhitespace", "tokenTypeNewline",
     "tokenTypeLParen", "tokenTypeRParen", "tokenTypeComma", "tokenTypeDEF",
     "tokenTypeEND", "tokenTypeCLASS", "tokenTypeMODULE", "tokenTypeTRUE",
     "tokenTypeFALSE", "tokenTypeLessThan", "tokenTypeGreaterThan", "tokenTypeColon",
     "tokenTypeEqual", "tokenTypeBang", "tokenTypeTilde", "tokenTypePlus",
     "tokenTypeMinus", "tokenTypeStar", "tokenTypeLBracket", "tokenTypeRBracket",
     "tokenTypeLBrace", "tokenTypeRBrace", "tokenTypeDollarSign", "tokenTypeAtSign"}

\* C35: Lex has a case for every token kind: for a token of any kind but
\* the Error kind (its text a number, so that the numeric kinds convert)
\* it returns a parser symbol, no token the analyzer emits takes the
\* default branch, and a panic of Lex is never the default branch's.
LexMapsEveryKind ==
    /\ \A t \in TokenTypes \ {"tokenTypeError"} :
           LET out == lexSwitch([typ |-> t, value |-> <<53>>])
           IN  ~out.panics /\ out.code # ""
    /\ lexSwitch([typ |-> "tokenTypeError", value |-> <<>>]) = lexPanic
    /\ \A i \in Lexers :
           /\ \A k \in 1..Len(emitted[i]) :
                  /\ emitted[i][k].typ \in TokenTypes
                  /\ lexSwitch(emitted[i][k]) # unknownToken
           /\ consumer[i].pc = "panic" => lexSwitch(consumer[i].token) # unknownToken

\* Lex has returned the symbols of ( 5 ) and of the end marker.
LexMapsEveryKindWitness ==
    \E i \in Lexers : returned[i] = <<"LPAREN", "NODE", "RPAREN", "EOF">>

\* The path is made of two or more names with one slash between each two.
IsPlainPath(path) ==
    /\ path # <<>>
    /\ path[1] # 47
    /\ path[Len(path)] # 47
    /\ \E k \in 1..Len(path) : path[k] = 47
    /\ \A k \in 1..(Len(path) - 1) : ~(path[k] = 47 /\ path[k + 1] = 47)

\* The names of the path before its last name.
DirOf(path) ==
    LET slashes == {k \in 1..Len(path) : path[k] = 47}
        k == CHOOSE m \in slashes : \A j \in slashes : j <= m
    IN  SubSeq(path, 1, k - 1)

\* C37: dirname returns the path without its last element: for
\* c1/.../cn, the names c1/.../c(n-1).
DirnameDropsLastElement ==
    call.op = "dirname" /\ IsPlainPath(call.args[1]) =>
        call.result = DirOf(call.args[1])

====
